---------------------------- MODULE Spec2Model ----------------------------
(***************************************************************************)
(* Multi-cluster secret controller (package secretcontroller).             *)
(*                                                                         *)
(* The controller watches labelled secrets, keeps a ClusterStore mapping   *)
(* a clusterID to a RemoteCluster built from the secret's kubeconfig, and  *)
(* calls the add / update / remove callbacks as clusters come and go.      *)
(*                                                                         *)
(* Two specifications are defined over the same state:                     *)
(*   Spec      the whole controller: informer, work queue, Run, worker;    *)
(*   SpecPass  processItem applied to an arbitrary sequence of cache       *)
(*             lookups (every such sequence can be produced by the         *)
(*             informer), used for the properties of one pass.             *)
(***************************************************************************)
EXTENDS Naturals, Integers, Sequences, FiniteSets, TLC

(***************************************************************************)
(* Inputs.                                                                 *)
(***************************************************************************)
\* const initialSyncSignal = "INIT"
initialSyncSignal == "INIT"

\* const maxRetries = 5
maxRetries == 5

\* namespace/name keys of the labelled secrets
Secrets == {"ns/creds-1", "ns/creds-2"}

\* keys of a secret's Data map
ClusterIDs == {"east", "west"}

\* kubeconfig blobs: byte strings.  <<>> is the empty blob, a blob holding
\* the byte 0 stands for one clientcmd cannot load, blobs of bytes 1 and 2
\* are well-formed.
KubeConfigs == {<<>>, <<0>>, <<1>>, <<2>>}

\* every value a secret's Data map can take
AllData == UNION {[D -> KubeConfigs] : D \in SUBSET ClusterIDs}

NoData == [x \in {} |-> <<>>]

\* the orders in which a range over a map with key set S may visit its keys
Orders(S) ==
    {o \in [1..Cardinality(S) -> S] : \A x \in S : \E i \in DOMAIN o : o[i] = x}

VARIABLES
    cs,           \* Controller.cs.remoteClusters : clusterID -> RemoteCluster
    initialSync,  \* Controller.initialSync
    cache,        \* informer indexer: secret key -> [exists, data]
    toList,       \* secrets of the initial list not yet delivered
    events,       \* watch events delivered after the initial list
    runPc,        \* position of Controller.Run
    workerPc,     \* position of the worker goroutine
    item,         \* the key the worker holds between Get and Done
    queue,        \* work queue: keys ready for Get, in order
    dirty,        \* work queue: keys added and not yet handed out
    processing,   \* work queue: keys handed out and not yet Done
    waiting,      \* work queue: keys waiting for their rate-limit delay
    failures,     \* rate limiter: key -> number of requeues
    shuttingDown, \* work queue: ShutDown was called
    pass,         \* history: the input of the last processItem call
    calls,        \* history: the callbacks invoked by the last processItem
    passErr,      \* history: the last processItem returned an error
    lifecycle,    \* history: progress of the add / update / delete scenario
    preKeys,      \* history: keys pending when the sentinel was enqueued
    passed,       \* history: keys that completed a processItem call
    attempts,     \* history: key -> failed attempts in the current chain
    outcome,      \* history: how the last processNextItem ended
    cacheAtSync,  \* history: the cache when Run saw the informer synced
    csBefore,     \* history: the registry when the last processItem began
    repeat,       \* history: the last two processItem calls were add passes
                  \*          with the same key and the same data
    quiet,        \* history: no watch event and no lookup error since Run
                  \*          saw the informer synced
    chain,        \* history: key -> a notification arrived during its chain
    givenUp,      \* history: keys the worker has given up at least once
    stopped       \* stopCh is closed

storeVars == <<cs, initialSync>>
envVars   == <<cache, toList, events>>
ctlVars   == <<runPc, workerPc, item, stopped>>
queueVars == <<queue, dirty, processing, waiting, failures, shuttingDown>>
passVars  == <<pass, calls, passErr, lifecycle, csBefore, repeat>>
histVars  == <<preKeys, passed, attempts, outcome, cacheAtSync, quiet, chain,
               givenUp>>

\* state of the specifications that follow the two above; Spec and SpecPass
\* leave it as it is
VARIABLES
    exOwner,      \* history: clusterID -> owner of its record last removed
    exBy,         \* history: clusterID -> the pass that removed that record
    wk,           \* worker -> its position in processItem and its locals
    mu,           \* ClusterStore.RWMutex: the writer and the readers inside
    bare,         \* history: accesses of remoteClusters made without the lock
    overlap,      \* history: a read of remoteClusters ran during a write
    addedFor,     \* history: clusterID -> the secrets whose pass invoked the
                  \*          add callback for it since it last had no record
    noted,        \* history: secret -> notifications since it was handed out
    served,       \* history: the notifications the last Get answered
    loopPc,       \* Benchmark repeater: position of the loop
    loopI,        \* Benchmark repeater: the variable i of the closure
    runs,         \* Benchmark repeater: goroutine -> [st, i], i the index
                  \*          it passed to repeatFn
    lim,          \* ratelimit.limiter: the bucket channel, the ticker, the
                  \*          leak goroutine, and the history of their counts
    notified,     \* history: secret -> the object its handler was called
                  \*          with, for the earliest notification since the
                  \*          key was handed out
    mem,          \* memory controller: the keys of the configs in configStore
    caller,       \* memory controller: caller -> its position in an operation
    mon,          \* memory controller: the events scheduled on the monitor
    ended,        \* history: how the last operation of the controller ended
    bench,        \* Benchmark.Run: its position, its variable err, and the
                  \*          history of what happened and what it sent
    conflicted,   \* history: secret -> the clusterIDs its last pass found
                  \*          owned by another secret
    tr            \* history: the last callback invoked for each clusterID
                  \*          and whether every callback so far was in order

ownerVars == <<exOwner, exBy>>
stepVars  == <<wk, mu, bare, overlap, addedFor>>
noteVars  == <<noted, served>>
benchVars == <<loopPc, loopI, runs>>
levelVars == <<notified, conflicted>>
memVars   == <<mem, caller, mon, ended>>
moreVars  == <<levelVars, memVars, bench, tr>>
sideVars  == <<ownerVars, stepVars, noteVars, benchVars, lim, moreVars>>

vars == <<cs, initialSync, cache, toList, events, runPc, workerPc, item,
          queue, dirty, processing, waiting, failures, shuttingDown,
          pass, calls, passErr, lifecycle, preKeys, passed, attempts,
          outcome, cacheAtSync, csBefore, repeat, quiet, chain, givenUp,
          stopped, sideVars>>

(***************************************************************************)
(* ClusterStore.                                                           *)
(***************************************************************************)
\* c.remoteClusters[key] = value
Store(m, key, value) ==
    [k \in (DOMAIN m) \cup {key} |-> IF k = key THEN value ELSE m[k]]

\* out, ok := c.remoteClusters[key]: ok
Has(m, key) == key \in DOMAIN m

\* delete(c.remoteClusters, key)
Delete(m, key) == [k \in (DOMAIN m) \ {key} |-> m[k]]

\* len(c.remoteClusters)
StoreLen(m) == Cardinality(DOMAIN m)

(***************************************************************************)
(* Building a RemoteCluster.                                               *)
(***************************************************************************)
\* the byte values of the blobs above
Bytes == UNION {{kubeConfig[i] : i \in DOMAIN kubeConfig} : kubeConfig \in KubeConfigs}

\* base of the positional encoding below: larger than every byte
ByteBase == Cardinality(Bytes)

\* sha256.Sum256 as a collision-free digest: the bytes read as the digits
\* of a number after a leading 1, so that distinct blobs (of any lengths)
\* have distinct digests and the digest is not the blob.
RECURSIVE Sum256(_)
Sum256(kubeConfig) ==
    IF kubeConfig = <<>> THEN 1
    ELSE Sum256(SubSeq(kubeConfig, 1, Len(kubeConfig) - 1)) * ByteBase
            + kubeConfig[Len(kubeConfig)]

\* BuildClientsFromConfig: an error for an empty blob and for one that
\* cannot be loaded or validated; otherwise a client handle, identified by
\* the kubeconfig it connects with.
BuildClientsFromConfig(kubeConfig) ==
    IF Len(kubeConfig) = 0 THEN [err |-> TRUE, clients |-> NoData]
    ELSE IF \E i \in DOMAIN kubeConfig : kubeConfig[i] = 0
         THEN [err |-> TRUE, clients |-> NoData]
    ELSE [err |-> FALSE, clients |-> [config |-> kubeConfig]]

createRemoteCluster(kubeConfig, secretName) ==
    LET built == BuildClientsFromConfig(kubeConfig) IN
    IF built.err THEN [err |-> TRUE, cluster |-> NoData]
    ELSE [err |-> FALSE,
          cluster |-> [secretName    |-> secretName,
                       clients       |-> built.clients,
                       kubeConfigSha |-> Sum256(kubeConfig)]]

(***************************************************************************)
(* One pass of the worker over a key.  A pass carries the registry and the *)
(* callbacks it has invoked so far: st = [cs, calls].  cbErr is the set of *)
(* clusterIDs for which the caller's callback returns an error.            *)
(***************************************************************************)
Call(cb, clusterID, clients, cbErr) ==
    [cb |-> cb, id |-> clusterID, clients |-> clients, err |-> clusterID \in cbErr]

\* addEntry without the comparison of the digests
addEntryNoShaCheck(st, secretName, clusterID, kubeConfig, cbErr) ==
    LET ok       == Has(st.cs, clusterID)
        prev     == st.cs[clusterID]
        callback == IF ok THEN "update" ELSE "add"
        made     == createRemoteCluster(kubeConfig, secretName)
    IN  IF (ok /\ prev.secretName # secretName) \/ made.err
        THEN st
        ELSE [cs    |-> Store(st.cs, clusterID, made.cluster),
              calls |-> Append(st.calls,
                           Call(callback, clusterID, made.cluster.clients, cbErr))]

\* addEntry without the comparison of the owners
addEntryNoOwnerCheck(st, secretName, clusterID, kubeConfig, cbErr) ==
    LET ok       == Has(st.cs, clusterID)
        prev     == st.cs[clusterID]
        callback == IF ok THEN "update" ELSE "add"
        made     == createRemoteCluster(kubeConfig, secretName)
    IN  IF (ok /\ Sum256(kubeConfig) = prev.kubeConfigSha) \/ made.err
        THEN st
        ELSE [cs    |-> Store(st.cs, clusterID, made.cluster),
              calls |-> Append(st.calls,
                           Call(callback, clusterID, made.cluster.clients, cbErr))]

\* addEntry that never switches to the update callback
addEntryAlwaysAdd(st, secretName, clusterID, kubeConfig, cbErr) ==
    LET ok   == Has(st.cs, clusterID)
        prev == st.cs[clusterID]
        made == createRemoteCluster(kubeConfig, secretName)
    IN  IF \/ ok /\ prev.secretName # secretName
           \/ ok /\ Sum256(kubeConfig) = prev.kubeConfigSha
           \/ made.err
        THEN st
        ELSE [cs    |-> Store(st.cs, clusterID, made.cluster),
              calls |-> Append(st.calls,
                           Call("add", clusterID, made.cluster.clients, cbErr))]

\* addEntry that, for a record it updates, stores the new digest and keeps
\* the clients of the old record
addEntryKeepsClients(st, secretName, clusterID, kubeConfig, cbErr) ==
    LET ok       == Has(st.cs, clusterID)
        prev     == st.cs[clusterID]
        callback == IF ok THEN "update" ELSE "add"
    IN  IF ok /\ prev.secretName # secretName
        THEN st
        ELSE IF ok /\ Sum256(kubeConfig) = prev.kubeConfigSha
        THEN st
        ELSE LET made == createRemoteCluster(kubeConfig, secretName)
                 kept == IF ok THEN [made.cluster EXCEPT !.clients = prev.clients]
                         ELSE made.cluster
             IN
             IF made.err
             THEN st
             ELSE [cs    |-> Store(st.cs, clusterID, kept),
                   calls |-> Append(st.calls,
                                Call(callback, clusterID, kept.clients, cbErr))]

\* addEntry that takes the record back out (or puts the old one back) when
\* the callback returns an error
addEntryRollsBack(st, secretName, clusterID, kubeConfig, cbErr) ==
    LET ok       == Has(st.cs, clusterID)
        prev     == st.cs[clusterID]
        callback == IF ok THEN "update" ELSE "add"
    IN  IF ok /\ prev.secretName # secretName
        THEN st
        ELSE IF ok /\ Sum256(kubeConfig) = prev.kubeConfigSha
        THEN st
        ELSE LET made == createRemoteCluster(kubeConfig, secretName) IN
             IF made.err
             THEN st
             ELSE [cs    |-> IF clusterID \in cbErr THEN st.cs
                             ELSE Store(st.cs, clusterID, made.cluster),
                   calls |-> Append(st.calls,
                                Call(callback, clusterID, made.cluster.clients, cbErr))]

\* addEntry that, when no client can be built for a record it would
\* update, notes the digest of the bytes in the record
addEntryNotesFailedSha(st, secretName, clusterID, kubeConfig, cbErr) ==
    LET ok       == Has(st.cs, clusterID)
        prev     == st.cs[clusterID]
        callback == IF ok THEN "update" ELSE "add"
    IN  IF ok /\ prev.secretName # secretName
        THEN st
        ELSE IF ok /\ Sum256(kubeConfig) = prev.kubeConfigSha
        THEN st
        ELSE LET made == createRemoteCluster(kubeConfig, secretName) IN
             IF made.err
             THEN IF ok
                  THEN [st EXCEPT !.cs = Store(st.cs, clusterID,
                            [prev EXCEPT !.kubeConfigSha = Sum256(kubeConfig)])]
                  ELSE st
             ELSE [cs    |-> Store(st.cs, clusterID, made.cluster),
                   calls |-> Append(st.calls,
                                Call(callback, clusterID, made.cluster.clients, cbErr))]

\* the body of the loop of addMemberCluster for one entry of s.Data
addEntry(st, secretName, clusterID, kubeConfig, cbErr) ==
    LET ok       == Has(st.cs, clusterID)
        prev     == st.cs[clusterID]
        callback == IF ok THEN "update" ELSE "add"
    IN  IF ok /\ prev.secretName # secretName
        THEN st                                  \* ClusterID reused: continue
        ELSE IF ok /\ Sum256(kubeConfig) = prev.kubeConfigSha
        THEN st                                  \* identical: continue
        ELSE LET made == createRemoteCluster(kubeConfig, secretName) IN
             IF made.err
             THEN st                             \* logged: continue
             ELSE [cs    |-> Store(st.cs, clusterID, made.cluster),
                   calls |-> Append(st.calls,
                                Call(callback, clusterID, made.cluster.clients, cbErr))]

\* addLoop that returns from addMemberCluster at the first entry for which
\* no client can be built
RECURSIVE addLoopReturnOnBuildError(_, _, _, _, _, _)
addLoopReturnOnBuildError(st, secretName, data, order, i, cbErr) ==
    IF i > Len(order) THEN st
    ELSE IF /\ ~(Has(st.cs, order[i]) /\ st.cs[order[i]].secretName # secretName)
            /\ createRemoteCluster(data[order[i]], secretName).err
    THEN st
    ELSE addLoopReturnOnBuildError(
             addEntry(st, secretName, order[i], data[order[i]], cbErr),
             secretName, data, order, i + 1, cbErr)

\* for clusterID, kubeConfig := range s.Data, visiting the keys in `order`
RECURSIVE addLoop(_, _, _, _, _, _)
addLoop(st, secretName, data, order, i, cbErr) ==
    IF i > Len(order) THEN st
    ELSE addLoop(addEntry(st, secretName, order[i], data[order[i]], cbErr),
                 secretName, data, order, i + 1, cbErr)

\* addMemberCluster that first removes the records of the secret whose
\* clusterID the secret no longer declares
addMemberClusterPrunes(registry, secretName, data, order, cbErr) ==
    LET gone   == {x \in DOMAIN registry :
                      registry[x].secretName = secretName /\ x \notin DOMAIN data}
        pruned == [x \in (DOMAIN registry) \ gone |-> registry[x]]
    IN  addLoop([cs |-> pruned, calls |-> <<>>], secretName, data, order, 1, cbErr)

addMemberCluster(registry, secretName, data, order, cbErr) ==
    addLoop([cs |-> registry, calls |-> <<>>], secretName, data, order, 1, cbErr)

\* deleteEntry without the comparison of the owners
deleteEntryAnyOwner(st, secretName, clusterID, cbErr) ==
    [cs    |-> Delete(st.cs, clusterID),
     calls |-> Append(st.calls, Call("remove", clusterID, NoData, cbErr))]

\* deleteEntry that keeps the record when the remove callback fails
deleteEntryKeepOnError(st, secretName, clusterID, cbErr) ==
    IF st.cs[clusterID].secretName = secretName
    THEN [cs    |-> IF clusterID \in cbErr THEN st.cs ELSE Delete(st.cs, clusterID),
          calls |-> Append(st.calls, Call("remove", clusterID, NoData, cbErr))]
    ELSE st

\* the body of the loop of deleteMemberCluster for one entry of the map
deleteEntry(st, secretName, clusterID, cbErr) ==
    IF st.cs[clusterID].secretName = secretName
    THEN [cs    |-> Delete(st.cs, clusterID),
          calls |-> Append(st.calls, Call("remove", clusterID, NoData, cbErr))]
    ELSE st

\* for clusterID, cluster := range c.cs.remoteClusters: an entry deleted by
\* the loop is the one being visited, so every entry present at the start
\* is visited once.
RECURSIVE deleteLoop(_, _, _, _, _)
deleteLoop(st, secretName, order, i, cbErr) ==
    IF i > Len(order) THEN st
    ELSE deleteLoop(deleteEntry(st, secretName, order[i], cbErr),
                    secretName, order, i + 1, cbErr)

deleteMemberCluster(registry, secretName, order, cbErr) ==
    deleteLoop([cs |-> registry, calls |-> <<>>], secretName, order, 1, cbErr)

\* what informer.GetIndexer().GetByKey returns
Lookups ==
    {[err |-> TRUE, exists |-> FALSE, data |-> NoData],
     [err |-> FALSE, exists |-> FALSE, data |-> NoData]}
    \cup {[err |-> FALSE, exists |-> TRUE, data |-> d] : d \in AllData}

\* the map the pass ranges over
RangeOf(registry, lookup) ==
    IF lookup.exists THEN DOMAIN lookup.data ELSE DOMAIN registry

\* processItem that marks the controller synced after any successful pass
processItemAnyKey(registry, synced, secretName, lookup, order, cbErr) ==
    IF secretName = initialSyncSignal
    THEN [err |-> FALSE, sync |-> TRUE, cs |-> registry, calls |-> <<>>]
    ELSE IF lookup.err
    THEN [err |-> TRUE, sync |-> synced, cs |-> registry, calls |-> <<>>]
    ELSE LET st == IF lookup.exists
                   THEN addMemberCluster(registry, secretName, lookup.data, order, cbErr)
                   ELSE deleteMemberCluster(registry, secretName, order, cbErr)
         IN  [err |-> FALSE, sync |-> TRUE, cs |-> st.cs, calls |-> st.calls]

\* processItem that stores "the key is the sentinel" in initialSync
processItemStoresTest(registry, synced, secretName, lookup, order, cbErr) ==
    IF secretName = initialSyncSignal
    THEN [err |-> FALSE, sync |-> TRUE, cs |-> registry, calls |-> <<>>]
    ELSE IF lookup.err
    THEN [err |-> TRUE, sync |-> FALSE, cs |-> registry, calls |-> <<>>]
    ELSE LET st == IF lookup.exists
                   THEN addMemberCluster(registry, secretName, lookup.data, order, cbErr)
                   ELSE deleteMemberCluster(registry, secretName, order, cbErr)
         IN  [err |-> FALSE, sync |-> FALSE, cs |-> st.cs, calls |-> st.calls]

\* processItem that returns an error when a callback returned one
processItemReturnsCallbackError(registry, synced, secretName, lookup, order, cbErr) ==
    IF secretName = initialSyncSignal
    THEN [err |-> FALSE, sync |-> TRUE, cs |-> registry, calls |-> <<>>]
    ELSE IF lookup.err
    THEN [err |-> TRUE, sync |-> synced, cs |-> registry, calls |-> <<>>]
    ELSE LET st == IF lookup.exists
                   THEN addMemberCluster(registry, secretName, lookup.data, order, cbErr)
                   ELSE deleteMemberCluster(registry, secretName, order, cbErr)
         IN  [err   |-> \E i \in DOMAIN st.calls : st.calls[i].err,
              sync  |-> synced, cs |-> st.cs, calls |-> st.calls]

\* processItem: [err, sync, cs, calls], where sync is the new value of
\* initialSync when the key is the sentinel.
processItem(registry, synced, secretName, lookup, order, cbErr) ==
    IF secretName = initialSyncSignal
    THEN [err |-> FALSE, sync |-> TRUE, cs |-> registry, calls |-> <<>>]
    ELSE IF lookup.err
    THEN [err |-> TRUE, sync |-> synced, cs |-> registry, calls |-> <<>>]
    ELSE LET st == IF lookup.exists
                   THEN addMemberCluster(registry, secretName, lookup.data, order, cbErr)
                   ELSE deleteMemberCluster(registry, secretName, order, cbErr)
         IN  [err |-> FALSE, sync |-> synced, cs |-> st.cs, calls |-> st.calls]

\* history: the input of a processItem call
PassOf(secretName, lookup) ==
    [kind |-> IF secretName = initialSyncSignal THEN "sync"
              ELSE IF lookup.err THEN "error"
              ELSE IF lookup.exists THEN "add" ELSE "delete",
     key  |-> secretName,
     data |-> IF secretName = initialSyncSignal THEN NoData ELSE lookup.data]

NoPass == [kind |-> "none", key |-> "", data |-> NoData]

\* whether a client can be built from the blob
Usable(kubeConfig) == ~BuildClientsFromConfig(kubeConfig).err

\* history: progress through "a secret with one entry is reconciled into an
\* empty registry (stage 1), reconciled again with other bytes for the same
\* clusterID (stage 2), then found deleted (stage 3)", with the callbacks
\* invoked on the way and whether both blobs were usable.
NoLifecycle == [stage |-> 0, id |-> "", usable |-> FALSE, log |-> <<>>]

LifecycleNext(lc, registry, last, new, newCalls) ==
    IF new.kind = "add" /\ registry = NoData /\ Cardinality(DOMAIN new.data) = 1
    THEN [stage  |-> 1,
          id     |-> CHOOSE x \in DOMAIN new.data : TRUE,
          usable |-> \A x \in DOMAIN new.data : Usable(new.data[x]),
          log    |-> newCalls]
    ELSE IF /\ lc.stage = 1 /\ new.kind = "add" /\ new.key = last.key
            /\ DOMAIN new.data = DOMAIN last.data /\ new.data # last.data
    THEN [stage  |-> 2,
          id     |-> lc.id,
          usable |-> lc.usable /\ \A x \in DOMAIN new.data : Usable(new.data[x]),
          log    |-> lc.log \o newCalls]
    ELSE IF lc.stage = 2 /\ new.kind = "delete" /\ new.key = last.key
    THEN [stage |-> 3, id |-> lc.id, usable |-> lc.usable,
          log |-> lc.log \o newCalls]
    ELSE NoLifecycle

(***************************************************************************)
(* The state after NewController.                                          *)
(***************************************************************************)
Keys == Secrets \cup {initialSyncSignal}

Absent == [exists |-> FALSE, data |-> NoData]

NoOutcome ==
    [kind |-> "none", key |-> "", attempts |-> 0, counter |-> 0,
     requeued |-> FALSE, dropped |-> FALSE, pending |-> FALSE,
     noted |-> FALSE, again |-> FALSE]

\* no record has been removed yet
NoRemoval == [kind |-> "none", key |-> ""]

InitOwner ==
    /\ exOwner = [x \in ClusterIDs |-> ""]
    /\ exBy = [x \in ClusterIDs |-> NoRemoval]

\* the goroutines that run runWorker
Workers == {"w1", "w2"}

\* a worker between two passes
Idle ==
    [pc |-> "idle", key |-> "", kind |-> "none", data |-> NoData, todo |-> <<>>,
     start |-> {}, seen |-> {}, mine |-> {}, x |-> "", ok |-> FALSE,
     made |-> NoData, log |-> <<>>]

InitSteps ==
    /\ wk = [w \in Workers |-> Idle]
    /\ mu = [writer |-> "", readers |-> {}]
    /\ bare = {}
    /\ overlap = FALSE
    /\ addedFor = [x \in ClusterIDs |-> {}]

InitNotes ==
    /\ noted = [s \in Secrets |-> 0]
    /\ served = 0

\* goroutines the repeater starts before it is stopped
MaxSpawns == 3

Spawns == 1..MaxSpawns

\* buildRepeater's closure is called: i := 0, no goroutine started
InitBench ==
    /\ loopPc = "select"
    /\ loopI = 0
    /\ runs = [g \in Spawns |-> [st |-> "unborn", i |-> 0]]

\* New(rate, duration): the capacity of the bucket
Rate == 2

\* ticks of the ticker that are followed
MaxTicks == 4

\* the limiter with the fields New fills in, for a bucket holding n items
NewLimiter(n) ==
    [bucket |-> n, tick |-> FALSE, leak |-> "range", closed |-> FALSE,
     ticks |-> 0, drained |-> 0, returned |-> 0]

\* New that leaves the bucket empty
InitLimiterEmpty == lim = NewLimiter(0)

\* New: the bucket is filled to its capacity; the leak goroutine waits for
\* the first tick
InitLimiter == lim = NewLimiter(Rate)

\* no notification has been delivered
InitLevel ==
    /\ notified = [s \in Secrets |-> Absent]
    /\ conflicted = [s \in Secrets |-> {}]

\* the goroutines that call the memory controller
Callers == {"c1", "c2"}

\* the key (kind, name, namespace) of the config the callers work on
ConfigKey == "vs/default/a"

\* a caller outside any operation
Outside == [pc |-> "idle", op |-> "none", old |-> FALSE]

\* no operation has ended yet
NoResult ==
    [op |-> "none", stored |-> FALSE, err |-> FALSE, events |-> <<>>,
     panic |-> FALSE]

\* NewController over an empty store
InitMem ==
    /\ mem = {}
    /\ caller = [c \in Callers |-> Outside]
    /\ mon = <<>>
    /\ ended = NoResult

\* Benchmark.Run has started the repeater and declared err (line 110)
InitRun ==
    bench = [pc |-> "select", armed |-> FALSE, timeoutSet |-> FALSE,
             err |-> "nil", failed |-> FALSE, timedOut |-> FALSE,
             sent |-> "none", reported |-> FALSE]

\* no callback has been invoked
InitTrace ==
    tr = [last |-> [x \in ClusterIDs |-> "none"], ok |-> TRUE,
          erred |-> FALSE, again |-> {}]

InitSide ==
    /\ InitOwner
    /\ InitSteps
    /\ InitNotes
    /\ InitBench
    /\ InitLimiter
    /\ InitLevel
    /\ InitMem
    /\ InitRun
    /\ InitTrace

InitController ==
    /\ cs = NoData
    /\ initialSync = FALSE
    /\ cache = [s \in Secrets |-> Absent]
    /\ events = 0
    /\ runPc = "waitSync"
    /\ workerPc = "notStarted"
    /\ item = ""
    /\ queue = <<>>
    /\ dirty = {}
    /\ processing = {}
    /\ waiting = {}
    /\ failures = [k \in Keys |-> 0]
    /\ shuttingDown = FALSE
    /\ pass = NoPass
    /\ calls = <<>>
    /\ passErr = FALSE
    /\ lifecycle = NoLifecycle
    /\ preKeys = {}
    /\ passed = {}
    /\ attempts = [k \in Keys |-> 0]
    /\ outcome = NoOutcome
    /\ cacheAtSync = [s \in Secrets |-> Absent]
    /\ csBefore = NoData
    /\ repeat = FALSE
    /\ quiet = FALSE
    /\ chain = [k \in Keys |-> FALSE]
    /\ givenUp = {}
    /\ stopped = FALSE
    /\ InitSide

(***************************************************************************)
(* SpecPass: processItem on arbitrary lookups.                             *)
(***************************************************************************)
InitPass == InitController /\ toList = {}

Reconcile(secretName, lookup, order, cbErr) ==
    LET r == processItem(cs, initialSync, secretName, lookup, order, cbErr)
        p == PassOf(secretName, lookup)
    IN  /\ cs' = r.cs
        /\ initialSync' = r.sync
        /\ pass' = p
        /\ calls' = r.calls
        /\ passErr' = r.err
        /\ lifecycle' = LifecycleNext(lifecycle, cs, pass, p, r.calls)
        /\ csBefore' = cs
        /\ repeat' = (p.kind = "add" /\ p = pass)
        /\ UNCHANGED <<envVars, ctlVars, queueVars, histVars>>
        /\ UNCHANGED sideVars

\* the lookups to try for a key: the sentinel is never looked up
LookupsOf(secretName) ==
    IF secretName = initialSyncSignal
    THEN {[err |-> FALSE, exists |-> FALSE, data |-> NoData]}
    ELSE Lookups

NextPass ==
    \E secretName \in Keys :
        \E lookup \in LookupsOf(secretName) :
            \E order \in Orders(RangeOf(cs, lookup)),
               cbErr \in SUBSET RangeOf(cs, lookup) :
                Reconcile(secretName, lookup, order, cbErr)

SpecPass == InitPass /\ [][NextPass]_vars

(***************************************************************************)
(* The work queue (workqueue.NewRateLimitingQueue with the default         *)
(* controller rate limiter), as a record q of its fields.                  *)
(***************************************************************************)
TheQueue ==
    [queue |-> queue, dirty |-> dirty, processing |-> processing,
     waiting |-> waiting, failures |-> failures, shuttingDown |-> shuttingDown]

SetQueue(q) ==
    /\ queue' = q.queue
    /\ dirty' = q.dirty
    /\ processing' = q.processing
    /\ waiting' = q.waiting
    /\ failures' = q.failures
    /\ shuttingDown' = q.shuttingDown

Range(seq) == {seq[i] : i \in DOMAIN seq}

\* Add: dropped when shutting down or already dirty; a key being processed
\* is only marked dirty
QAdd(q, k) ==
    IF q.shuttingDown \/ k \in q.dirty THEN q
    ELSE IF k \in q.processing THEN [q EXCEPT !.dirty = @ \cup {k}]
    ELSE [q EXCEPT !.dirty = @ \cup {k}, !.queue = Append(@, k)]

\* Get, for a non-empty queue: the head moves from dirty to processing
QGet(q) ==
    [q EXCEPT !.queue = Tail(@),
              !.processing = @ \cup {Head(q.queue)},
              !.dirty = @ \ {Head(q.queue)}]

\* Done: a key marked dirty while it was processed is queued again
QDone(q, k) ==
    IF k \in q.dirty
    THEN [q EXCEPT !.processing = @ \ {k}, !.queue = Append(@, k)]
    ELSE [q EXCEPT !.processing = @ \ {k}]

QForget(q, k) == [q EXCEPT !.failures[k] = 0]

NumRequeues(q, k) == q.failures[k]

\* AddRateLimited: AddAfter(item, rateLimiter.When(item)); When counts the
\* failure, AddAfter parks the key until its delay has passed
QAddRateLimited(q, k) ==
    IF q.shuttingDown THEN [q EXCEPT !.failures[k] = @ + 1]
    ELSE [q EXCEPT !.failures[k] = @ + 1, !.waiting = @ \cup {k}]

QShutDown(q) == [q EXCEPT !.shuttingDown = TRUE]

\* a key is pending when a Get will hand it out, now or after its delay
Pending(q, k) == k \in Range(q.queue) \/ k \in q.dirty \/ k \in q.waiting

(***************************************************************************)
(* The informer: the initial list, then watch events.  Each delivery       *)
(* updates the indexer and runs the event handler, which adds the key.     *)
(***************************************************************************)
\* watch events after the initial list
MaxEvents == 1

\* the values a secret's Data takes in the whole-controller specification
WatchData == {d \in AllData : DOMAIN d = {"east"} /\ d["east"] # <<0>>}

Present(d) == [exists |-> TRUE, data |-> d]

InitialLists == UNION {[D -> WatchData] : D \in SUBSET Secrets}

\* a notification for k that arrives while an attempt chain of k is under way
DuringChain(k) == k \in processing \/ failures[k] > 0

\* NewController's AddFunc, for an object of the initial list
InformerList(s) ==
    /\ ~stopped
    /\ s \in DOMAIN toList
    /\ cache' = [cache EXCEPT ![s] = Present(toList[s])]
    /\ toList' = [x \in (DOMAIN toList) \ {s} |-> toList[x]]
    /\ SetQueue(QAdd(TheQueue, s))
    /\ UNCHANGED <<events, storeVars, ctlVars, passVars, histVars>>
    /\ UNCHANGED sideVars

\* NewController's AddFunc, UpdateFunc and DeleteFunc, for a watch event.
\* UpdateFunc returns early only when the whole object is unchanged, so an
\* update that leaves Data as it was (a change of metadata) adds the key too.
InformerEvent(s, e) ==
    /\ ~stopped
    /\ DOMAIN toList = {}
    /\ events < MaxEvents
    /\ e # cache[s] \/ e.exists
    /\ cache' = [cache EXCEPT ![s] = e]
    /\ events' = events + 1
    /\ SetQueue(QAdd(TheQueue, s))
    /\ quiet' = FALSE
    /\ chain' = [chain EXCEPT ![s] = @ \/ DuringChain(s)]
    /\ UNCHANGED <<toList, storeVars, ctlVars, passVars>>
    /\ UNCHANGED <<preKeys, passed, attempts, outcome, cacheAtSync, givenUp>>
    /\ UNCHANGED sideVars

(***************************************************************************)
(* Controller.Run.                                                         *)
(***************************************************************************)
\* Run with the sentinel's effect moved to the informer's sync
RunSyncedMarksReady ==
    /\ runPc = "waitSync"
    /\ DOMAIN toList = {}
    /\ SetQueue(QAdd(TheQueue, initialSyncSignal))
    /\ runPc' = "startWorker"
    /\ initialSync' = TRUE
    /\ preKeys' = Range(queue)
    /\ cacheAtSync' = cache
    /\ quiet' = TRUE
    /\ UNCHANGED <<cs, envVars, workerPc, item, stopped, passVars>>
    /\ UNCHANGED <<passed, attempts, outcome, chain, givenUp>>
    /\ UNCHANGED sideVars

\* Run that adds the sentinel without waiting for the informer's cache
RunSyncedNoWait ==
    /\ runPc = "waitSync"
    /\ SetQueue(QAdd(TheQueue, initialSyncSignal))
    /\ runPc' = "startWorker"
    /\ preKeys' = Range(queue)
    /\ cacheAtSync' = cache
    /\ quiet' = TRUE
    /\ UNCHANGED <<storeVars, envVars, workerPc, item, stopped, passVars>>
    /\ UNCHANGED <<passed, attempts, outcome, chain, givenUp>>
    /\ UNCHANGED sideVars

\* Run that starts the worker without adding the sentinel
RunSyncedNoSignal ==
    /\ runPc = "waitSync"
    /\ DOMAIN toList = {}
    /\ runPc' = "startWorker"
    /\ preKeys' = Range(queue)
    /\ cacheAtSync' = cache
    /\ quiet' = TRUE
    /\ UNCHANGED <<storeVars, envVars, workerPc, item, stopped, passVars, queueVars>>
    /\ UNCHANGED <<passed, attempts, outcome, chain, givenUp>>
    /\ UNCHANGED sideVars

\* WaitForCacheSyncInterval returns true; c.queue.Add(initialSyncSignal)
RunSynced ==
    /\ runPc = "waitSync"
    /\ DOMAIN toList = {}
    /\ SetQueue(QAdd(TheQueue, initialSyncSignal))
    /\ runPc' = "startWorker"
    /\ preKeys' = Range(queue)
    /\ cacheAtSync' = cache
    /\ quiet' = TRUE
    /\ UNCHANGED <<storeVars, envVars, workerPc, item, stopped, passVars>>
    /\ UNCHANGED <<passed, attempts, outcome, chain, givenUp>>
    /\ UNCHANGED sideVars

\* go wait.Until(c.runWorker, 5*time.Second, stopCh)
RunStartWorker ==
    /\ runPc = "startWorker"
    /\ runPc' = "running"
    /\ workerPc' = "spawned"
    /\ UNCHANGED <<storeVars, envVars, item, stopped, queueVars, passVars, histVars>>
    /\ UNCHANGED sideVars

\* close(stopCh)
Stop ==
    /\ ~stopped
    /\ stopped' = TRUE
    /\ UNCHANGED <<storeVars, envVars, runPc, workerPc, item, queueVars,
                   passVars, histVars>>
    /\ UNCHANGED sideVars

\* Run that returns without shutting the queue down
RunReturnNoShutDown ==
    /\ stopped
    /\ runPc \in {"waitSync", "running"}
    /\ runPc' = "returned"
    /\ UNCHANGED <<storeVars, envVars, workerPc, item, stopped, queueVars,
                   passVars, histVars>>
    /\ UNCHANGED sideVars

\* Run returns, from the wait for the cache or from <-stopCh; the deferred
\* c.queue.ShutDown() runs
RunReturn ==
    /\ stopped
    /\ runPc \in {"waitSync", "running"}
    /\ runPc' = "returned"
    /\ SetQueue(QShutDown(TheQueue))
    /\ UNCHANGED <<storeVars, envVars, workerPc, item, stopped, passVars, histVars>>
    /\ UNCHANGED sideVars

(***************************************************************************)
(* The worker: wait.Until, runWorker, processNextItem.                     *)
(***************************************************************************)
\* wait.Until checks stopCh before it calls runWorker
WorkerStart ==
    /\ workerPc = "spawned"
    /\ workerPc' = IF stopped THEN "exited" ELSE "idle"
    /\ UNCHANGED <<storeVars, envVars, runPc, item, stopped, queueVars,
                   passVars, histVars>>
    /\ UNCHANGED sideVars

\* secretName, quit := c.queue.Get() with quit false
WorkerGet ==
    /\ workerPc = "idle"
    /\ queue # <<>>
    /\ item' = Head(queue)
    /\ SetQueue(QGet(TheQueue))
    /\ workerPc' = "processing"
    /\ UNCHANGED <<storeVars, envVars, runPc, stopped, passVars, histVars>>
    /\ UNCHANGED sideVars

\* secretName, quit := c.queue.Get() with quit true: runWorker returns
WorkerExit ==
    /\ workerPc = "idle"
    /\ queue = <<>>
    /\ shuttingDown
    /\ workerPc' = "exited"
    /\ UNCHANGED <<storeVars, envVars, runPc, item, stopped, queueVars,
                   passVars, histVars>>
    /\ UNCHANGED sideVars

\* the branch of processNextItem, with <= for <
DecideOffByOne(q, secretName, err) ==
    IF ~err THEN "ok"
    ELSE IF NumRequeues(q, secretName) <= maxRetries THEN "retry"
    ELSE "giveUp"

\* the branch processNextItem takes after processItem
Decide(q, secretName, err) ==
    IF ~err THEN "ok"
    ELSE IF NumRequeues(q, secretName) < maxRetries THEN "retry"
    ELSE "giveUp"

\* processNextItem that gives up without resetting the rate limiter
AfterItemNoForget(q, secretName, err) ==
    LET d == Decide(q, secretName, err) IN
    IF d = "retry"
    THEN QDone(QAddRateLimited(q, secretName), secretName)
    ELSE IF d = "giveUp" THEN QDone(q, secretName)
    ELSE QDone(QForget(q, secretName), secretName)

\* processNextItem that leaves the rate limiter alone after a pass without
\* error
AfterItemNoForgetOnSuccess(q, secretName, err) ==
    LET d == Decide(q, secretName, err) IN
    IF d = "retry"
    THEN QDone(QAddRateLimited(q, secretName), secretName)
    ELSE IF d = "giveUp" THEN QDone(QForget(q, secretName), secretName)
    ELSE QDone(q, secretName)

\* the queue after processNextItem's branch and its deferred Done
AfterItem(q, secretName, err) ==
    LET d == Decide(q, secretName, err) IN
    IF d = "retry"
    THEN QDone(QAddRateLimited(q, secretName), secretName)
    ELSE QDone(QForget(q, secretName), secretName)

\* the keys for which GetByKey can return an error
FaultyKeys == {"ns/creds-1"}

\* what GetByKey returns for the key the worker holds
\* a lookup that answers with the object the handler was called with
LookupOfNotified(secretName, lookupErr) ==
    IF secretName = initialSyncSignal
    THEN [err |-> FALSE, exists |-> FALSE, data |-> NoData]
    ELSE IF lookupErr THEN [err |-> TRUE, exists |-> FALSE, data |-> NoData]
    ELSE [err |-> FALSE, exists |-> notified[secretName].exists,
          data |-> notified[secretName].data]

LookupOf(secretName, lookupErr) ==
    IF secretName = initialSyncSignal
    THEN [err |-> FALSE, exists |-> FALSE, data |-> NoData]
    ELSE IF lookupErr THEN [err |-> TRUE, exists |-> FALSE, data |-> NoData]
    ELSE [err |-> FALSE, exists |-> cache[secretName].exists,
          data |-> cache[secretName].data]

\* processNextItem from processItem to the deferred Done
WorkerProcess(lookupErr, order, cbErr) ==
    LET lookup == LookupOf(item, lookupErr)
        r == processItem(cs, initialSync, item, lookup, order, cbErr)
        p == PassOf(item, lookup)
        d == Decide(TheQueue, item, r.err)
        q == AfterItem(TheQueue, item, r.err)
    IN  /\ workerPc = "processing"
        /\ lookupErr => item \in FaultyKeys
        /\ order \in Orders(RangeOf(cs, lookup))
        /\ cbErr \subseteq RangeOf(cs, lookup)
        /\ cs' = r.cs
        /\ initialSync' = r.sync
        /\ SetQueue(q)
        /\ workerPc' = "idle"
        /\ item' = ""
        /\ pass' = p
        /\ calls' = r.calls
        /\ passErr' = r.err
        /\ lifecycle' = LifecycleNext(lifecycle, cs, pass, p, r.calls)
        /\ csBefore' = cs
        /\ repeat' = (p.kind = "add" /\ p = pass)
        /\ passed' = passed \cup {item}
        /\ attempts' = [attempts EXCEPT ![item] = IF d = "retry" THEN @ + 1 ELSE 0]
        /\ outcome' = [kind     |-> d,
                       key      |-> item,
                       attempts |-> attempts[item] + 1,
                       counter  |-> NumRequeues(q, item),
                       requeued |-> NumRequeues(q, item) > failures[item],
                       dropped  |-> item \notin q.processing,
                       pending  |-> Pending(q, item),
                       noted    |-> chain[item],
                       again    |-> item \in givenUp]
        /\ givenUp' = IF d = "giveUp" THEN givenUp \cup {item} ELSE givenUp
        /\ quiet' = (quiet /\ ~r.err)
        /\ chain' = [chain EXCEPT ![item] = IF d = "retry" THEN @
                                            ELSE @ /\ Pending(q, item)]
        /\ UNCHANGED <<envVars, runPc, stopped, preKeys, cacheAtSync>>
        /\ UNCHANGED sideVars

\* the delay of a key parked by AddRateLimited has passed: Add
DelayFire(k) ==
    /\ k \in waiting
    /\ ~shuttingDown
    /\ SetQueue(QAdd([TheQueue EXCEPT !.waiting = @ \ {k}], k))
    /\ UNCHANGED <<storeVars, envVars, ctlVars, passVars, histVars>>
    /\ UNCHANGED sideVars

Init ==
    /\ InitController
    /\ toList \in InitialLists

Next ==
    \/ \E s \in Secrets : InformerList(s)
    \/ \E s \in Secrets, e \in {Absent} \cup {Present(d) : d \in WatchData} :
           InformerEvent(s, e)
    \/ RunSynced
    \/ RunStartWorker
    \/ Stop
    \/ RunReturn
    \/ WorkerStart
    \/ WorkerGet
    \/ WorkerExit
    \/ \E lookupErr \in BOOLEAN, order \in Orders(ClusterIDs) \cup Orders({"east"})
            \cup Orders({"west"}) \cup Orders({}), cbErr \in SUBSET ClusterIDs :
           WorkerProcess(lookupErr, order, cbErr)
    \/ \E k \in Secrets : DelayFire(k)

Spec == Init /\ [][Next]_vars

\* the steps of Run's goroutine: the wait for the cache ends once the
\* cache has synced or the stop signal has fired
RunStep == RunSynced \/ RunStartWorker \/ RunReturn

\* the steps of the worker's goroutine
WorkerStep ==
    \/ WorkerStart
    \/ WorkerGet
    \/ WorkerExit
    \/ \E lookupErr \in BOOLEAN, order \in Orders(ClusterIDs) \cup Orders({"east"})
            \cup Orders({"west"}) \cup Orders({}), cbErr \in SUBSET ClusterIDs :
           WorkerProcess(lookupErr, order, cbErr)

\* the Go scheduler runs a goroutine that is not blocked
SpecFair == Spec /\ WF_vars(RunStep) /\ WF_vars(WorkerStep)

(***************************************************************************)
(* SpecOwner: processItem on arbitrary lookups, as in SpecPass, with the   *)
(* history of the removals in place of the history of the callbacks.       *)
(***************************************************************************)
ReconcileOwned(secretName, lookup, order, cbErr) ==
    LET r == processItem(cs, initialSync, secretName, lookup, order, cbErr)
        p == PassOf(secretName, lookup)
        removed(x) == Has(cs, x) /\ ~Has(r.cs, x)
    IN  /\ cs' = r.cs
        /\ initialSync' = r.sync
        /\ csBefore' = cs
        /\ exOwner' = [x \in ClusterIDs |->
                          IF removed(x) THEN cs[x].secretName ELSE exOwner[x]]
        /\ exBy' = [x \in ClusterIDs |->
                       IF removed(x) THEN [kind |-> p.kind, key |-> p.key]
                       ELSE exBy[x]]
        /\ UNCHANGED <<envVars, ctlVars, queueVars, histVars>>
        /\ UNCHANGED <<pass, calls, lifecycle, repeat, passErr, stepVars, noteVars>>
        /\ UNCHANGED <<benchVars, lim, moreVars>>

NextOwner ==
    \E secretName \in Keys :
        \E lookup \in LookupsOf(secretName) :
            \E order \in Orders(RangeOf(cs, lookup)),
               cbErr \in SUBSET RangeOf(cs, lookup) :
                ReconcileOwned(secretName, lookup, order, cbErr)

SpecOwner == InitPass /\ [][NextOwner]_vars

(***************************************************************************)
(* SpecSteps and SpecWorkers: processItem step by step, one step for each  *)
(* acquisition of the registry's lock, each access of remoteClusters and   *)
(* each callback.  SpecSteps runs the one worker Run starts; SpecWorkers   *)
(* runs two, which the queue never hands the same key.                     *)
(***************************************************************************)
\* the secrets' Data in these specifications
StepData == {d \in AllData : \A x \in DOMAIN d : d[x] # <<0>>}

SharedData == {d \in StepData : DOMAIN d = {"east"} /\ d["east"] # <<>>}

\* what these steps leave alone
StepFrame ==
    UNCHANGED <<initialSync, envVars, ctlVars, queueVars, passVars, histVars,
                ownerVars, noteVars, benchVars, lim, moreVars>>

Between(w) == wk[w].pc \in {"idle", "done"}

\* the next iteration of the loop of addMemberCluster, or the call of Len
\* after the loop
NextEntry(r) ==
    IF r.todo = <<>> THEN [r EXCEPT !.pc = "lenLock", !.x = ""]
    ELSE [r EXCEPT !.pc = "getLock", !.x = Head(r.todo), !.todo = Tail(r.todo)]

\* processItem up to the first access of the registry.  The range of
\* deleteMemberCluster reads c.cs.remoteClusters directly.
StartPass(w, s, lookup, order) ==
    /\ Between(w)
    /\ \A v \in Workers \ {w} : Between(v) \/ wk[v].key # s
    /\ order \in Orders(DOMAIN lookup.data)
    /\ IF lookup.exists
       THEN /\ wk' = [wk EXCEPT ![w] =
                        NextEntry([Idle EXCEPT !.key = s, !.kind = "add",
                                               !.data = lookup.data,
                                               !.todo = order])]
            /\ bare' = bare
       ELSE /\ wk' = [wk EXCEPT ![w] =
                        [Idle EXCEPT !.pc = "scan", !.key = s, !.kind = "delete",
                            !.start = DOMAIN cs,
                            !.mine = {x \in DOMAIN cs : cs[x].secretName = s}]]
            /\ bare' = bare \cup {"range"}
    /\ UNCHANGED <<cs, mu, overlap, addedFor>>
    /\ StepFrame

\* ClusterStore.Get: c.RLock()
GetLock(w) ==
    /\ wk[w].pc = "getLock"
    /\ mu.writer = ""
    /\ mu' = [mu EXCEPT !.readers = @ \cup {w}]
    /\ wk' = [wk EXCEPT ![w].pc = "get"]
    /\ UNCHANGED <<cs, bare, overlap, addedFor>>
    /\ StepFrame

\* ClusterStore.Get: the read and the deferred RUnlock; then the body of
\* the loop up to the call of Store
GetRead(w) ==
    LET r    == wk[w]
        ok   == Has(cs, r.x)
        prev == cs[r.x]
        made == createRemoteCluster(r.data[r.x], r.key)
        r1   == [r EXCEPT !.ok = ok]
    IN  /\ r.pc = "get"
        /\ mu' = [mu EXCEPT !.readers = @ \ {w}]
        /\ wk' = [wk EXCEPT ![w] =
                     IF ok /\ prev.secretName # r.key THEN NextEntry(r1)
                     ELSE IF ok /\ Sum256(r.data[r.x]) = prev.kubeConfigSha
                     THEN NextEntry(r1)
                     ELSE IF made.err THEN NextEntry(r1)
                     ELSE [r1 EXCEPT !.pc = "storeLock", !.made = made.cluster]]
        /\ UNCHANGED <<cs, bare, overlap, addedFor>>
        /\ StepFrame

\* ClusterStore.Store: c.Lock()
StoreLock(w) ==
    /\ wk[w].pc = "storeLock"
    /\ mu.writer = "" /\ mu.readers = {}
    /\ mu' = [mu EXCEPT !.writer = w]
    /\ wk' = [wk EXCEPT ![w].pc = "store"]
    /\ UNCHANGED <<cs, bare, overlap, addedFor>>
    /\ StepFrame

\* ClusterStore.Store: the write and the deferred Unlock
\* Store whose write does not reach the registry's map
StoreWriteLost(w) ==
    /\ wk[w].pc = "store"
    /\ mu' = [mu EXCEPT !.writer = ""]
    /\ wk' = [wk EXCEPT ![w].pc = "callback"]
    /\ UNCHANGED <<cs, bare, overlap, addedFor>>
    /\ StepFrame

StoreWrite(w) ==
    /\ wk[w].pc = "store"
    /\ cs' = Store(cs, wk[w].x, wk[w].made)
    /\ mu' = [mu EXCEPT !.writer = ""]
    /\ wk' = [wk EXCEPT ![w].pc = "callback"]
    /\ UNCHANGED <<bare, overlap, addedFor>>
    /\ StepFrame

\* callback(remoteCluster.clients, clusterID)
Callback(w, err) ==
    LET r  == wk[w]
        cb == IF r.ok THEN "update" ELSE "add"
        c  == Call(cb, r.x, r.made.clients, IF err THEN {r.x} ELSE {})
    IN  /\ r.pc = "callback"
        /\ wk' = [wk EXCEPT ![w] = NextEntry([r EXCEPT !.log = Append(@, c)])]
        /\ addedFor' = IF cb = "add"
                       THEN [addedFor EXCEPT ![r.x] = @ \cup {r.key}]
                       ELSE addedFor
        /\ UNCHANGED <<cs, mu, bare, overlap>>
        /\ StepFrame

\* ClusterStore.Len: c.Lock()
LenLock(w) ==
    /\ wk[w].pc = "lenLock"
    /\ mu.writer = "" /\ mu.readers = {}
    /\ mu' = [mu EXCEPT !.writer = w]
    /\ wk' = [wk EXCEPT ![w].pc = "len"]
    /\ UNCHANGED <<cs, bare, overlap, addedFor>>
    /\ StepFrame

\* ClusterStore.Len: the read and the deferred Unlock; addMemberCluster
\* and processItem return
LenRead(w) ==
    /\ wk[w].pc = "len"
    /\ mu' = [mu EXCEPT !.writer = ""]
    /\ wk' = [wk EXCEPT ![w].pc = "done"]
    /\ UNCHANGED <<cs, bare, overlap, addedFor>>
    /\ StepFrame

\* the range of deleteMemberCluster produces the entry x: an entry not yet
\* produced, among them the entries stored since the range began
Scan(w, x) ==
    /\ wk[w].pc = "scan"
    /\ x \in (DOMAIN cs) \ wk[w].seen
    /\ wk' = [wk EXCEPT ![w].seen = @ \cup {x},
                        ![w].x = IF cs[x].secretName = wk[w].key THEN x ELSE "",
                        ![w].pc = IF cs[x].secretName = wk[w].key THEN "remove"
                                  ELSE "scan"]
    /\ overlap' = (overlap \/ mu.writer \notin {"", w})
    /\ UNCHANGED <<cs, mu, bare, addedFor>>
    /\ StepFrame

\* the range ends: every entry that was there when it began and is still
\* there has been produced (an entry stored since may be skipped)
ScanEnd(w) ==
    /\ wk[w].pc = "scan"
    /\ (wk[w].start \cap DOMAIN cs) \ wk[w].seen = {}
    /\ wk' = [wk EXCEPT ![w].pc = "lenRaw"]
    /\ UNCHANGED <<cs, mu, bare, overlap, addedFor>>
    /\ StepFrame

\* Remove that goes on to the next entry, without the Delete, when the
\* callback returned an error
RemoveSkipsDeleteOnError(w, err) ==
    LET r == wk[w]
        c == Call("remove", r.x, NoData, IF err THEN {r.x} ELSE {})
    IN  /\ r.pc = "remove"
        /\ wk' = [wk EXCEPT ![w].log = Append(@, c),
                            ![w].pc = IF err THEN "scan" ELSE "deleteLock"]
        /\ UNCHANGED <<cs, mu, bare, overlap, addedFor>>
        /\ StepFrame

\* c.removeCallback(clusterID)
Remove(w, err) ==
    LET r == wk[w]
        c == Call("remove", r.x, NoData, IF err THEN {r.x} ELSE {})
    IN  /\ r.pc = "remove"
        /\ wk' = [wk EXCEPT ![w].log = Append(@, c), ![w].pc = "deleteLock"]
        /\ UNCHANGED <<cs, mu, bare, overlap, addedFor>>
        /\ StepFrame

\* ClusterStore.Delete: c.Lock()
DeleteLock(w) ==
    /\ wk[w].pc = "deleteLock"
    /\ mu.writer = "" /\ mu.readers = {}
    /\ mu' = [mu EXCEPT !.writer = w]
    /\ wk' = [wk EXCEPT ![w].pc = "delete"]
    /\ UNCHANGED <<cs, bare, overlap, addedFor>>
    /\ StepFrame

\* ClusterStore.Delete: the delete and the deferred Unlock
DeleteWrite(w) ==
    /\ wk[w].pc = "delete"
    /\ cs' = Delete(cs, wk[w].x)
    /\ mu' = [mu EXCEPT !.writer = ""]
    /\ wk' = [wk EXCEPT ![w].pc = "scan", ![w].x = ""]
    /\ addedFor' = [addedFor EXCEPT ![wk[w].x] = {}]
    /\ UNCHANGED <<bare, overlap>>
    /\ StepFrame

\* len(c.cs.remoteClusters) at the end of deleteMemberCluster, read
\* directly; deleteMemberCluster and processItem return
LenRaw(w) ==
    /\ wk[w].pc = "lenRaw"
    /\ bare' = bare \cup {"len"}
    /\ overlap' = (overlap \/ mu.writer \notin {"", w})
    /\ wk' = [wk EXCEPT ![w].pc = "done"]
    /\ UNCHANGED <<cs, mu, addedFor>>
    /\ StepFrame

\* the range advances while another goroutine is writing the map: the
\* runtime may detect it and end the process ("concurrent map iteration
\* and map write")
Fault(w) ==
    /\ wk[w].pc = "scan"
    /\ mu.writer \notin {"", w}
    /\ wk' = [v \in Workers |-> [wk[v] EXCEPT !.pc = "dead"]]
    /\ overlap' = TRUE
    /\ UNCHANGED <<cs, mu, bare, addedFor>>
    /\ StepFrame

StepLookups(D) == {Absent} \cup {Present(d) : d \in D}

StepOrders == UNION {Orders(S) : S \in SUBSET ClusterIDs}

StepsOf(w, D) ==
    \/ \E s \in Secrets, lookup \in StepLookups(D), order \in StepOrders :
           StartPass(w, s, lookup, order)
    \/ GetLock(w)
    \/ GetRead(w)
    \/ StoreLock(w)
    \/ StoreWrite(w)
    \/ \E err \in BOOLEAN : Callback(w, err)
    \/ LenLock(w)
    \/ LenRead(w)
    \/ \E x \in ClusterIDs : Scan(w, x)
    \/ ScanEnd(w)
    \/ \E err \in BOOLEAN : Remove(w, err)
    \/ DeleteLock(w)
    \/ DeleteWrite(w)
    \/ LenRaw(w)

NextSteps == StepsOf("w1", StepData)

SpecSteps == InitPass /\ [][NextSteps]_vars

NextWorkers == \E w \in Workers : StepsOf(w, SharedData) \/ Fault(w)

SpecWorkers == InitPass /\ [][NextWorkers]_vars

(***************************************************************************)
(* SpecQueue: the event handlers and the worker's Get and Done, while the  *)
(* controller runs.                                                        *)
(***************************************************************************)
\* notifications counted for a secret between two Gets of its key
MaxNotes == 3

\* the handlers' kinds of notification
Kinds == {"add", "update", "delete"}

\* a handler that takes the key of a deleted object from another object
HandlerKeyOfOther(kind, s) ==
    IF kind = "delete" THEN CHOOSE k \in Secrets : k # s ELSE s

\* the key a handler computes for the object s: its namespace/name
HandlerKey(kind, s) == s

\* AddFunc, UpdateFunc (for a changed object) and DeleteFunc: queue.Add(key)
Notify(kind, s) ==
    /\ noted[s] < MaxNotes
    /\ SetQueue(QAdd(TheQueue, HandlerKey(kind, s)))
    /\ noted' = [noted EXCEPT ![s] = @ + 1]
    /\ UNCHANGED <<storeVars, envVars, ctlVars, passVars, histVars>>
    /\ UNCHANGED <<ownerVars, stepVars, served, benchVars, lim, moreVars>>

\* processNextItem: c.queue.Get()
QueueGet ==
    /\ item = ""
    /\ queue # <<>>
    /\ item' = Head(queue)
    /\ SetQueue(QGet(TheQueue))
    /\ served' = noted[Head(queue)]
    /\ noted' = [noted EXCEPT ![Head(queue)] = 0]
    /\ UNCHANGED <<storeVars, envVars, runPc, workerPc, stopped, passVars, histVars>>
    /\ UNCHANGED <<ownerVars, stepVars, benchVars, lim, moreVars>>

\* processNextItem after a processItem that returned nil: Forget and the
\* deferred Done
QueueDone ==
    /\ item # ""
    /\ SetQueue(AfterItem(TheQueue, item, FALSE))
    /\ item' = ""
    /\ UNCHANGED <<storeVars, envVars, runPc, workerPc, stopped, passVars, histVars>>
    /\ UNCHANGED sideVars

NextQueue ==
    \/ \E kind \in Kinds, s \in Secrets : Notify(kind, s)
    \/ QueueGet
    \/ QueueDone

SpecQueue == InitPass /\ [][NextQueue]_vars

(***************************************************************************)
(* SpecRepeat: the repeater of Benchmark.buildRepeater: the loop starts a  *)
(* goroutine per iteration; the goroutine's closure reads the loop's i     *)
(* when it calls repeatFn.                                                 *)
(***************************************************************************)
BenchFrame ==
    UNCHANGED <<storeVars, envVars, ctlVars, queueVars, passVars, histVars,
                ownerVars, stepVars, noteVars, lim, moreVars>>

Started == {g \in Spawns : runs[g].st # "unborn"}

\* the default case of the select up to the go statement: limiter.Wait(),
\* wg.Add(1), go func() {...}()
LoopSpawn ==
    /\ loopPc = "select"
    /\ Started # Spawns
    /\ runs' = [runs EXCEPT ![Cardinality(Started) + 1].st = "started"]
    /\ loopPc' = "inc"
    /\ UNCHANGED loopI
    /\ BenchFrame

\* i++
LoopInc ==
    /\ loopPc = "inc"
    /\ loopI' = loopI + 1
    /\ loopPc' = "select"
    /\ UNCHANGED runs
    /\ BenchFrame

\* a started goroutine evaluates b.repeatFn(ctx, i): it reads i now
GoCall(g) ==
    /\ runs[g].st = "started"
    /\ runs' = [runs EXCEPT ![g] = [st |-> "called", i |-> loopI]]
    /\ UNCHANGED <<loopPc, loopI>>
    /\ BenchFrame

\* repeatFn returns: wg.Done()
GoDone(g) ==
    /\ runs[g].st = "called"
    /\ runs' = [runs EXCEPT ![g].st = "done"]
    /\ UNCHANGED <<loopPc, loopI>>
    /\ BenchFrame

\* case err := <-stop: return; the deferred function waits in wg.Wait()
LoopStop ==
    /\ loopPc = "select"
    /\ loopPc' = "wgWait"
    /\ UNCHANGED <<loopI, runs>>
    /\ BenchFrame

\* wg.Wait() returns; limiter.Close(); close(stop)
LoopReturn ==
    /\ loopPc = "wgWait"
    /\ \A g \in Started : runs[g].st = "done"
    /\ loopPc' = "returned"
    /\ UNCHANGED <<loopI, runs>>
    /\ BenchFrame

NextRepeat ==
    \/ LoopSpawn
    \/ LoopInc
    \/ \E g \in Spawns : GoCall(g)
    \/ \E g \in Spawns : GoDone(g)
    \/ LoopStop
    \/ LoopReturn

SpecRepeat == InitPass /\ [][NextRepeat]_vars

(***************************************************************************)
(* SpecLimiter: package ratelimit.  The bucket is a buffered channel, Wait *)
(* sends into it, the leak goroutine receives one item from it for each    *)
(* tick it takes from the ticker.                                          *)
(***************************************************************************)
LimiterFrame ==
    UNCHANGED <<storeVars, envVars, ctlVars, queueVars, passVars, histVars,
                ownerVars, stepVars, noteVars, benchVars, moreVars>>

\* the ticker fires: ticker.C buffers one tick and drops a tick that finds
\* it full
Tick ==
    /\ lim.ticks < MaxTicks
    /\ lim' = [lim EXCEPT !.ticks = @ + 1, !.tick = TRUE]
    /\ LimiterFrame

\* for range ticker.C: the leak goroutine takes the tick
LeakTake ==
    /\ lim.leak = "range"
    /\ lim.tick
    /\ lim' = [lim EXCEPT !.tick = FALSE, !.leak = "drain"]
    /\ LimiterFrame

\* _, ok := <-bucket with an item in the bucket
LeakDrain ==
    /\ lim.leak = "drain"
    /\ lim.bucket > 0
    /\ lim' = [lim EXCEPT !.bucket = @ - 1, !.drained = @ + 1, !.leak = "range"]
    /\ LimiterFrame

\* a leak goroutine that returns as soon as the bucket is closed, with
\* slots still buffered
LeakExitEarly ==
    /\ lim.leak = "drain"
    /\ lim.closed
    /\ lim' = [lim EXCEPT !.leak = "exited"]
    /\ LimiterFrame

\* _, ok := <-bucket on the closed, empty bucket: ok is false, return
LeakExit ==
    /\ lim.leak = "drain"
    /\ lim.bucket = 0
    /\ lim.closed
    /\ lim' = [lim EXCEPT !.leak = "exited"]
    /\ LimiterFrame

\* Wait: *l <- struct{}{} proceeds when the bucket has room
Wait ==
    /\ ~lim.closed
    /\ lim.bucket < Rate
    /\ lim' = [lim EXCEPT !.bucket = @ + 1, !.returned = @ + 1]
    /\ LimiterFrame

\* Close: close(*l)
Close ==
    /\ ~lim.closed
    /\ lim' = [lim EXCEPT !.closed = TRUE]
    /\ LimiterFrame

NextLimiter ==
    \/ Tick
    \/ LeakTake
    \/ LeakDrain
    \/ LeakExit
    \/ Wait
    \/ Close

SpecLimiter == InitPass /\ [][NextLimiter]_vars

\* the ticker goes on firing after Close, until the leak goroutine's
\* deferred ticker.Stop(); the history counts the ticks before Close only
TickAfterClose ==
    /\ lim.closed
    /\ lim.leak # "exited"
    /\ ~lim.tick
    /\ lim' = [lim EXCEPT !.tick = TRUE]
    /\ LimiterFrame

NextLimiterFair ==
    \/ Tick
    \/ TickAfterClose
    \/ LeakTake
    \/ LeakDrain
    \/ LeakExit
    \/ Wait
    \/ Close

\* time passes, so the ticker fires, and the Go scheduler runs the leak
\* goroutine when it is not blocked
SpecLimiterFair ==
    /\ InitPass
    /\ [][NextLimiterFair]_vars
    /\ WF_vars(TickAfterClose)
    /\ WF_vars(LeakTake \/ LeakDrain \/ LeakExit)

(***************************************************************************)
(* Properties of one pass (SpecPass).                                      *)
(***************************************************************************)
\* how many times the last pass invoked callback cb for clusterID x
Invoked(cb, x) ==
    Cardinality({i \in DOMAIN calls : calls[i].cb = cb /\ calls[i].id = x})

\* C1: an add-or-update pass that repeats the previous pass (same secret,
\* byte-identical data) invokes no callback and leaves the registry as it
\* was.
C1_Idempotent == repeat => (calls = <<>> /\ cs = csBefore)

\* a repeated pass over a secret whose entry the registry holds under that
\* secret, with the fingerprint of the repeated bytes
C1_Witness ==
    /\ repeat
    /\ \E x \in DOMAIN pass.data :
          /\ Has(cs, x) /\ cs[x].secretName = pass.key
          /\ cs[x].kubeConfigSha = Sum256(pass.data[x])

\* C2: an add-or-update pass for a secret that declares a clusterID whose
\* record is owned by another secret leaves that record as it was and
\* invokes no callback for that clusterID.
C2_ConflictRejected ==
    pass.kind = "add" =>
        \A x \in DOMAIN pass.data :
            (Has(csBefore, x) /\ csBefore[x].secretName # pass.key) =>
                /\ Has(cs, x) /\ cs[x] = csBefore[x]
                /\ \A i \in DOMAIN calls : calls[i].id # x

\* a pass that presents usable, different bytes for a clusterID another
\* secret owns
C2_Witness ==
    /\ pass.kind = "add"
    /\ \E x \in DOMAIN pass.data :
          /\ Has(csBefore, x) /\ csBefore[x].secretName # pass.key
          /\ Usable(pass.data[x])
          /\ Sum256(pass.data[x]) # csBefore[x].kubeConfigSha

\* the entries of the last add-or-update pass that had no record, and those
\* that had a record of the same owner with another fingerprint
FirstSeen(x) == ~Has(csBefore, x)

Changed(x) ==
    /\ Has(csBefore, x)
    /\ csBefore[x].secretName = pass.key
    /\ csBefore[x].kubeConfigSha # Sum256(pass.data[x])

\* C3 as stated: a first-seen clusterID always triggers the add callback; a
\* changed one always triggers the update callback and never the add
\* callback.
C3_AsStated ==
    pass.kind = "add" =>
        \A x \in DOMAIN pass.data :
            /\ FirstSeen(x) => Invoked("add", x) >= 1
            /\ Changed(x) => (Invoked("update", x) >= 1 /\ Invoked("add", x) = 0)

\* C3 amended: the same, for the entries from whose bytes a client can be
\* built; an entry whose bytes are unusable triggers no callback.
C3_AddUpdateDistinction ==
    pass.kind = "add" =>
        \A x \in DOMAIN pass.data :
            /\ (FirstSeen(x) /\ Usable(pass.data[x])) =>
                    (Invoked("add", x) = 1 /\ Invoked("update", x) = 0)
            /\ (Changed(x) /\ Usable(pass.data[x])) =>
                    (Invoked("update", x) = 1 /\ Invoked("add", x) = 0)
            /\ ~Usable(pass.data[x]) =>
                    (Invoked("add", x) = 0 /\ Invoked("update", x) = 0)

\* a pass holding a first-seen entry and a changed entry, both usable
C3_Witness ==
    /\ pass.kind = "add"
    /\ \E x, y \in DOMAIN pass.data :
          /\ FirstSeen(x) /\ Usable(pass.data[x])
          /\ Changed(y) /\ Usable(pass.data[y])

\* C4: a removal pass for key K invokes the remove callback once for each
\* clusterID whose record K owned and for no other, invokes no other
\* callback, and leaves exactly the records K did not own, unchanged.
C4_DeletionScan ==
    pass.kind = "delete" =>
        /\ \A x \in ClusterIDs :
              Invoked("remove", x) =
                  IF Has(csBefore, x) /\ csBefore[x].secretName = pass.key
                  THEN 1 ELSE 0
        /\ \A i \in DOMAIN calls : calls[i].cb = "remove"
        /\ DOMAIN cs = {x \in DOMAIN csBefore : csBefore[x].secretName # pass.key}
        /\ \A x \in DOMAIN cs : cs[x] = csBefore[x]

\* a removal pass over a registry holding a record of the key and a record
\* of another secret
C4_Witness ==
    /\ pass.kind = "delete"
    /\ \E x, y \in DOMAIN csBefore :
          /\ csBefore[x].secretName = pass.key
          /\ csBefore[y].secretName # pass.key

\* the callbacks of a log, as <<callback, clusterID>> pairs
Trace(log) == [i \in DOMAIN log |-> <<log[i].cb, log[i].id>>]

LifecycleTrace(x) == << <<"add", x>>, <<"update", x>>, <<"remove", x>> >>

\* C10 as stated: after the scenario (one entry into an empty registry,
\* other bytes for it, deletion) the callbacks were add, update, remove,
\* once each, and the registry is empty.
C10_AsStated ==
    lifecycle.stage = 3 =>
        (Trace(lifecycle.log) = LifecycleTrace(lifecycle.id) /\ StoreLen(cs) = 0)

\* C10 amended: the same, when a client can be built from both blobs.
C10_Lifecycle ==
    (lifecycle.stage = 3 /\ lifecycle.usable) =>
        (Trace(lifecycle.log) = LifecycleTrace(lifecycle.id) /\ StoreLen(cs) = 0)

\* the end of the scenario with two usable blobs
C10_Witness == lifecycle.stage = 3 /\ lifecycle.usable /\ pass.kind = "delete"

\* C12: the fingerprint of every record of the registry is the digest of
\* the bytes its clients were built from, and a pass that leaves a record
\* in the registry changes its fingerprint exactly when it changes its
\* clients.
C12_Fingerprint ==
    /\ \A x \in DOMAIN cs : cs[x].kubeConfigSha = Sum256(cs[x].clients.config)
    /\ \A x \in DOMAIN csBefore \cap DOMAIN cs :
          (cs[x].kubeConfigSha = csBefore[x].kubeConfigSha)
              <=> (cs[x].clients = csBefore[x].clients)

\* a pass has replaced a record by one built from other bytes, next to a
\* record it left alone
C12_Witness ==
    /\ pass.kind = "add"
    /\ \E x \in DOMAIN pass.data :
          /\ Changed(x)
          /\ Has(cs, x) /\ cs[x].clients.config = pass.data[x]
          /\ cs[x].kubeConfigSha # csBefore[x].kubeConfigSha
    /\ \E y \in DOMAIN csBefore \cap DOMAIN cs : cs[y] = csBefore[y]

\* the queue after Get has handed out secretName, with n requeues counted
\* for it and, when marked, a notification received since
HandedOut(secretName, n, marked) ==
    [queue        |-> <<>>,
     dirty        |-> IF marked THEN {secretName} ELSE {},
     processing   |-> {secretName},
     waiting      |-> {},
     failures     |-> [k \in Keys |-> IF k = secretName THEN n ELSE 0],
     shuttingDown |-> FALSE]

\* processNextItem reports the key as succeeded whatever its retry counter
\* was: it takes the Forget branch, the counter is zero afterwards and the
\* worker has not parked the key for a retry
ReportedOk(secretName, err) ==
    \A n \in 0..maxRetries, marked \in BOOLEAN :
        LET q0 == HandedOut(secretName, n, marked)
            q  == AfterItem(q0, secretName, err)
        IN  /\ Decide(q0, secretName, err) = "ok"
            /\ NumRequeues(q, secretName) = 0
            /\ secretName \notin q.waiting
            /\ secretName \notin q.processing

\* the entries of the last add-or-update pass for which the build of the
\* clients was attempted and failed
Failing ==
    {x \in DOMAIN pass.data :
        /\ ~(Has(csBefore, x) /\ csBefore[x].secretName # pass.key)
        /\ ~Usable(pass.data[x])}

\* the clusterIDs whose callback returned an error in the last pass
Erred == {calls[i].id : i \in DOMAIN calls}
             \ {calls[i].id : i \in {j \in DOMAIN calls : ~calls[j].err}}

\* C19: in an add-or-update pass an entry whose build fails causes no
\* registry write and no callback; the registry and the callbacks are those
\* of a pass over the secret without its failing entries; processItem
\* returns no error and the key is reported to the queue as succeeded.
C19_BuildFailureIsolated ==
    pass.kind = "add" =>
        /\ \A x \in Failing :
              /\ \A i \in DOMAIN calls : calls[i].id # x
              /\ Has(cs, x) <=> Has(csBefore, x)
              /\ Has(cs, x) => cs[x] = csBefore[x]
        /\ \E o \in Orders(DOMAIN pass.data \ Failing) :
              addMemberCluster(csBefore, pass.key,
                               [x \in DOMAIN pass.data \ Failing |-> pass.data[x]],
                               o, Erred)
                  = [cs |-> cs, calls |-> calls]
        /\ ~passErr
        /\ ReportedOk(pass.key, passErr)

\* a pass over a secret with an entry whose build fails, for a clusterID
\* that has a record, and an entry that was stored and called back
C19_Witness ==
    /\ pass.kind = "add"
    /\ \E x \in Failing : Has(csBefore, x)
    /\ \E y \in DOMAIN pass.data \ Failing :
          /\ \E i \in DOMAIN calls : calls[i].id = y
          /\ Has(cs, y)
          /\ ~Has(csBefore, y) \/ cs[y] # csBefore[y]

\* the log with the results of the callbacks left out
Unjudged(log) == [i \in DOMAIN log |-> [log[i] EXCEPT !.err = FALSE]]

\* the lookup that produced the last pass
LookupOfPass == [err |-> FALSE, exists |-> pass.kind = "add", data |-> pass.data]

\* C20: when the lookup succeeds processItem returns no error whatever the
\* callbacks returned; the registry and the sequence of callbacks are those
\* of the same pass with no callback failing; the key is reported to the
\* queue as succeeded: its retry counter is zero and the worker does not
\* queue it again.
C20_CallbackErrorsSwallowed ==
    pass.kind \in {"add", "delete"} =>
        /\ ~passErr
        /\ ReportedOk(pass.key, passErr)
        /\ \E o \in Orders(RangeOf(csBefore, LookupOfPass)) :
              LET r == processItem(csBefore, initialSync, pass.key,
                                   LookupOfPass, o, {})
              IN  r.cs = cs /\ r.calls = Unjudged(calls)

\* a pass in which the first of two callbacks returned an error
C20_Witness ==
    /\ pass.kind \in {"add", "delete"}
    /\ Len(calls) = 2 /\ calls[1].err

\* the pass that follows the last pass when the same secret is reconciled
\* again with the same data
Again(o, e) == addMemberCluster(cs, pass.key, pass.data, o, e)

\* C21: when an add or update callback returns an error the record stored
\* for its clusterID stays in the registry, with the owner, the clients
\* and the fingerprint of the new bytes; a pass that follows over the same
\* secret with the same bytes leaves that record alone and invokes no
\* callback for the clusterID.
C21_FailedCallbackKept ==
    pass.kind = "add" =>
        \A i \in DOMAIN calls :
            calls[i].err =>
                LET x == calls[i].id IN
                /\ Has(cs, x)
                /\ cs[x].secretName = pass.key
                /\ cs[x].clients = calls[i].clients
                /\ cs[x].kubeConfigSha = Sum256(pass.data[x])
                /\ \A o \in Orders(DOMAIN pass.data), e \in SUBSET DOMAIN pass.data :
                      /\ Again(o, e).cs[x] = cs[x]
                      /\ \A j \in DOMAIN Again(o, e).calls :
                            Again(o, e).calls[j].id # x

\* an update callback returned an error for a record the pass replaced
C21_Witness ==
    /\ pass.kind = "add"
    /\ \E i \in DOMAIN calls :
          /\ calls[i].err /\ calls[i].cb = "update"
          /\ cs[calls[i].id] # csBefore[calls[i].id]

\* C25: an add-or-update pass removes no record and invokes no remove
\* callback; the record of a clusterID the secret owned and no longer
\* declares stays as it was, owned by the secret.
C25_NoRemovalOnUpdate ==
    pass.kind = "add" =>
        /\ DOMAIN csBefore \subseteq DOMAIN cs
        /\ \A i \in DOMAIN calls : calls[i].cb # "remove"
        /\ \A x \in (DOMAIN csBefore) \ DOMAIN pass.data : cs[x] = csBefore[x]

\* a pass over a secret that declares one clusterID and owns the record of
\* another, which it no longer declares
C25_Witness ==
    /\ pass.kind = "add"
    /\ DOMAIN pass.data # {}
    /\ \E x \in (DOMAIN csBefore) \ DOMAIN pass.data :
          csBefore[x].secretName = pass.key /\ Has(cs, x)

\* C27: when the changed bytes of an entry whose record the secret owns
\* yield no client, the record stays as it was, no callback is invoked for
\* it, and the entry still differs from the record's fingerprint, so that
\* a pass that follows with the same bytes tries the build again.
C27_FailedUpdateKeepsRecord ==
    pass.kind = "add" =>
        \A x \in DOMAIN pass.data :
            (Changed(x) /\ ~Usable(pass.data[x])) =>
                /\ Has(cs, x) /\ cs[x] = csBefore[x]
                /\ \A i \in DOMAIN calls : calls[i].id # x
                /\ cs[x].secretName = pass.key
                /\ cs[x].kubeConfigSha # Sum256(pass.data[x])

\* the second of two passes with the same data found the entry changed
\* and unusable again
C27_Witness ==
    /\ repeat
    /\ \E x \in DOMAIN pass.data : Changed(x) /\ ~Usable(pass.data[x])

(***************************************************************************)
(* Notifications and passes: the handlers add the key of a changed secret  *)
(* and one worker reconciles the key against the cache (SpecLevel).        *)
(***************************************************************************)
\* the handler's kind for a change of the cache entry from old to new
KindOf(old, new) ==
    IF ~new.exists THEN "delete" ELSE IF old.exists THEN "update" ELSE "add"

\* the informer stores the new state of a secret in its cache and calls
\* AddFunc, UpdateFunc or DeleteFunc: queue.Add(key)
LevelNotify(s, e) ==
    /\ noted[s] < MaxNotes
    /\ e # cache[s] \/ e.exists
    /\ cache' = [cache EXCEPT ![s] = e]
    /\ SetQueue(QAdd(TheQueue, HandlerKey(KindOf(cache[s], e), s)))
    /\ noted' = [noted EXCEPT ![s] = @ + 1]
    /\ notified' = [notified EXCEPT ![s] = IF noted[s] = 0 THEN e ELSE @]
    /\ UNCHANGED <<toList, events, storeVars, ctlVars, passVars, histVars>>
    /\ UNCHANGED <<ownerVars, stepVars, served, benchVars, lim, memVars, bench, tr>>
    /\ UNCHANGED conflicted

\* processNextItem: c.queue.Get()
LevelGet ==
    /\ item = ""
    /\ queue # <<>>
    /\ item' = Head(queue)
    /\ SetQueue(QGet(TheQueue))
    /\ served' = noted[Head(queue)]
    /\ noted' = [noted EXCEPT ![Head(queue)] = 0]
    /\ UNCHANGED <<storeVars, envVars, runPc, workerPc, stopped, passVars, histVars>>
    /\ UNCHANGED <<ownerVars, stepVars, benchVars, lim, moreVars>>

\* the entries of the secret that addMemberCluster skips because their
\* record is owned by another secret
OwnedByOther(registry, secretName, lookup) ==
    IF lookup.err \/ ~lookup.exists THEN {}
    ELSE {x \in DOMAIN lookup.data :
             Has(registry, x) /\ registry[x].secretName # secretName}

\* the queue after the keys of ks are added in turn
RECURSIVE QAddAll(_, _)
QAddAll(q, ks) ==
    IF ks = {} THEN q
    ELSE LET k == CHOOSE x \in ks : TRUE IN QAddAll(QAdd(q, k), ks \ {k})

\* a worker that, after a removal pass that removed a record, adds the keys
\* of the other secrets present in the cache
LevelProcessRequeues(order, cbErr) ==
    LET lookup == LookupOf(item, FALSE)
        r == processItem(cs, initialSync, item, lookup, order, cbErr)
        others == IF ~lookup.exists /\ r.calls # <<>>
                  THEN {s \in Secrets \ {item} : cache[s].exists}
                  ELSE {}
    IN  /\ item # ""
        /\ order \in Orders(RangeOf(cs, lookup))
        /\ cbErr \subseteq RangeOf(cs, lookup)
        /\ cs' = r.cs
        /\ initialSync' = r.sync
        /\ SetQueue(QAddAll(AfterItem(TheQueue, item, r.err), others))
        /\ item' = ""
        /\ pass' = PassOf(item, lookup)
        /\ calls' = r.calls
        /\ passErr' = r.err
        /\ csBefore' = cs
        /\ conflicted' = [conflicted EXCEPT ![item] = OwnedByOther(cs, item, lookup)]
        /\ UNCHANGED <<envVars, runPc, workerPc, stopped, lifecycle, repeat, histVars>>
        /\ UNCHANGED <<ownerVars, stepVars, noteVars, benchVars, lim, notified,
                       memVars, bench, tr>>

\* processNextItem from processItem to the deferred Done
LevelProcess(order, cbErr) ==
    LET lookup == LookupOf(item, FALSE)
        r == processItem(cs, initialSync, item, lookup, order, cbErr)
    IN  /\ item # ""
        /\ order \in Orders(RangeOf(cs, lookup))
        /\ cbErr \subseteq RangeOf(cs, lookup)
        /\ cs' = r.cs
        /\ initialSync' = r.sync
        /\ SetQueue(AfterItem(TheQueue, item, r.err))
        /\ item' = ""
        /\ pass' = PassOf(item, lookup)
        /\ calls' = r.calls
        /\ passErr' = r.err
        /\ csBefore' = cs
        /\ conflicted' = [conflicted EXCEPT ![item] = OwnedByOther(cs, item, lookup)]
        /\ UNCHANGED <<envVars, runPc, workerPc, stopped, lifecycle, repeat, histVars>>
        /\ UNCHANGED <<ownerVars, stepVars, noteVars, benchVars, lim, notified,
                       memVars, bench, tr>>

\* the states of a secret the informer reports: absent, or present with
\* one entry from which a client can be built
LevelStates == {Absent} \cup {Present(d) : d \in SharedData}

NextLevel ==
    \/ \E s \in Secrets, e \in LevelStates : LevelNotify(s, e)
    \/ LevelGet
    \/ \E order \in Orders({"east"}) \cup Orders({}) : LevelProcess(order, {})

SpecLevel == InitPass /\ [][NextLevel]_vars

(***************************************************************************)
(* The callbacks of a sequence of passes of the single worker (SpecTrace). *)
(***************************************************************************)
\* whether callback cb may follow a clusterID's last callback in a trace of
\* the form (add update* remove)*
InOrder(lastCb, cb) ==
    IF cb = "add" THEN lastCb \in {"none", "remove"}
    ELSE lastCb \in {"add", "update"}

\* the history after the callbacks log[i], log[i+1], ... in turn
RECURSIVE Follow(_, _, _)
Follow(h, log, i) ==
    IF i > Len(log) THEN h
    ELSE LET c == log[i] IN
         Follow([last  |-> [h.last EXCEPT ![c.id] = c.cb],
                 ok    |-> h.ok /\ InOrder(h.last[c.id], c.cb),
                 erred |-> h.erred \/ c.err,
                 again |-> IF c.cb = "add" /\ h.last[c.id] = "remove"
                           THEN h.again \cup {c.id} ELSE h.again],
                log, i + 1)

\* one processItem call, with the callbacks it invokes added to the history
ReconcileTraced(secretName, lookup, order, cbErr) ==
    LET r == processItem(cs, initialSync, secretName, lookup, order, cbErr)
    IN  /\ cs' = r.cs
        /\ initialSync' = r.sync
        /\ csBefore' = cs
        /\ tr' = Follow(tr, r.calls, 1)
        /\ UNCHANGED <<envVars, ctlVars, queueVars, histVars>>
        /\ UNCHANGED <<pass, calls, lifecycle, repeat, passErr>>
        /\ UNCHANGED <<ownerVars, stepVars, noteVars, benchVars, lim>>
        /\ UNCHANGED <<levelVars, memVars, bench>>

NextTrace ==
    \E secretName \in Keys :
        \E lookup \in LookupsOf(secretName) :
            \E order \in Orders(RangeOf(cs, lookup)),
               cbErr \in SUBSET RangeOf(cs, lookup) :
                ReconcileTraced(secretName, lookup, order, cbErr)

SpecTrace == InitPass /\ [][NextTrace]_vars

(***************************************************************************)
(* The repeater with its limiter (SpecTeardown): the loop's calls of       *)
(* limiter.Wait(), the stop message, and the deferred calls in the order   *)
(* they run: wg.Wait(), limiter.Close(), close(stop).                      *)
(***************************************************************************)
TearFrame ==
    UNCHANGED <<storeVars, envVars, ctlVars, queueVars, passVars, histVars,
                ownerVars, stepVars, noteVars, moreVars>>

\* the default case: limiter.Wait(), a send on the bucket, which panics on
\* a closed bucket and otherwise proceeds when the bucket has room
TearWait ==
    /\ loopPc = "select"
    /\ Started # Spawns
    /\ IF lim.closed
       THEN /\ loopPc' = "panicked"
            /\ UNCHANGED lim
       ELSE /\ lim.bucket < Rate
            /\ lim' = [lim EXCEPT !.bucket = @ + 1, !.returned = @ + 1]
            /\ loopPc' = "spawn"
    /\ UNCHANGED <<loopI, runs>>
    /\ TearFrame

\* wg.Add(1); go func() {...}()
TearSpawn ==
    /\ loopPc = "spawn"
    /\ runs' = [runs EXCEPT ![Cardinality(Started) + 1].st = "started"]
    /\ loopPc' = "inc"
    /\ UNCHANGED <<loopI, lim>>
    /\ TearFrame

\* a deferred function that does not wait for the goroutines
TearWgWaitNoWait ==
    /\ loopPc = "wgWait"
    /\ loopPc' = "close"
    /\ UNCHANGED <<loopI, runs, lim>>
    /\ TearFrame

\* the deferred function: wg.Wait() returns when every goroutine started
\* has called wg.Done()
TearWgWait ==
    /\ loopPc = "wgWait"
    /\ \A g \in Started : runs[g].st = "done"
    /\ loopPc' = "close"
    /\ UNCHANGED <<loopI, runs, lim>>
    /\ TearFrame

\* the deferred function: limiter.Close()
TearClose ==
    /\ loopPc = "close"
    /\ lim' = [lim EXCEPT !.closed = TRUE]
    /\ loopPc' = "closeStop"
    /\ UNCHANGED <<loopI, runs>>
    /\ TearFrame

\* the function deferred first runs last: close(stop)
TearCloseStop ==
    /\ loopPc = "closeStop"
    /\ loopPc' = "returned"
    /\ UNCHANGED <<loopI, runs, lim>>
    /\ TearFrame

NextTeardown ==
    \/ TearWait
    \/ TearSpawn
    \/ LoopInc
    \/ \E g \in Spawns : GoCall(g)
    \/ \E g \in Spawns : GoDone(g)
    \/ LoopStop
    \/ TearWgWait
    \/ TearClose
    \/ TearCloseStop
    \/ Tick
    \/ LeakTake
    \/ LeakDrain
    \/ LeakExit

SpecTeardown == InitPass /\ [][NextTeardown]_vars

(***************************************************************************)
(* Benchmark.Run beside the repeater it started (SpecRun).                 *)
(***************************************************************************)
RunFrame ==
    UNCHANGED <<storeVars, envVars, ctlVars, queueVars, passVars, histVars,
                ownerVars, stepVars, noteVars, lim, levelVars, memVars, tr>>

\* the select evaluates b.timeout(ctx): with warmupTimeout zero the channel
\* is nil and a goroutine will call ctx.Warm() after defaultWarmup; otherwise
\* a goroutine will send on the timeout channel after warmupTimeout
RunArm(timeoutSet) ==
    /\ bench.pc = "select" /\ ~bench.armed
    /\ bench' = [bench EXCEPT !.armed = TRUE, !.timeoutSet = timeoutSet]
    /\ UNCHANGED benchVars
    /\ RunFrame

\* case <-ctx.warm: the load test, or the default warm-up, called ctx.Warm()
RunWarm ==
    /\ bench.pc = "select" /\ bench.armed
    /\ (\E g \in Spawns : runs[g].st = "called") \/ ~bench.timeoutSet
    /\ bench' = [bench EXCEPT !.pc = "profile"]
    /\ UNCHANGED benchVars
    /\ RunFrame

\* the err of Run after "if path, err := profile(ctx); err != nil { err =
\* fmt.Errorf(...) }": the := declares a new err in the scope of the if,
\* and the assignment in the body is to that one
ErrAfterProfile(err, failed) == err

\* profile(ctx) returns, with an error or without
RunProfile(failed) ==
    /\ bench.pc = "profile"
    /\ bench' = [bench EXCEPT !.pc = "send", !.failed = failed,
                              !.err = ErrAfterProfile(bench.err, failed)]
    /\ UNCHANGED benchVars
    /\ RunFrame

\* case <-b.timeout(ctx): err = fmt.Errorf("timed out ...")
RunTimeout ==
    /\ bench.pc = "select" /\ bench.armed /\ bench.timeoutSet
    /\ bench' = [bench EXCEPT !.pc = "send", !.timedOut = TRUE, !.err = "timeout"]
    /\ UNCHANGED benchVars
    /\ RunFrame

\* stopRepeater <- err meets the repeater's case err := <-stop: the
\* repeater calls ctx.Error(err) when err is not nil and returns into the
\* deferred wg.Wait()
RunSend ==
    /\ bench.pc = "send"
    /\ loopPc = "select"
    /\ bench' = [bench EXCEPT !.pc = "returned", !.sent = bench.err,
                              !.reported = bench.err # "nil"]
    /\ loopPc' = "wgWait"
    /\ UNCHANGED <<loopI, runs>>
    /\ RunFrame

NextRun ==
    \/ \E timeoutSet \in BOOLEAN : RunArm(timeoutSet)
    \/ RunWarm
    \/ \E failed \in BOOLEAN : RunProfile(failed)
    \/ RunTimeout
    \/ RunSend
    \/ LoopSpawn
    \/ LoopInc
    \/ \E g \in Spawns : GoCall(g)
    \/ \E g \in Spawns : GoDone(g)
    \/ LoopReturn

SpecRun == InitPass /\ [][NextRun]_vars

(***************************************************************************)
(* The in-memory config controller (SpecMem): Create, Update,              *)
(* UpdateStatus, Patch and Delete over a configStore and a monitor.  The   *)
(* store is the model.ConfigStore the controller was built with: Create    *)
(* fails for a config that exists, Update, UpdateStatus and Delete for one *)
(* that does not, and any of them may fail for a reason of the store's     *)
(* own.  The callers run concurrently and interleave at the store's calls. *)
(***************************************************************************)
\* events the monitor holds unprocessed
MaxScheduled == 2

MemFrame ==
    UNCHANGED <<storeVars, envVars, ctlVars, queueVars, passVars, histVars,
                ownerVars, stepVars, noteVars, benchVars, lim, levelVars, bench, tr>>

\* how an operation ends: what the store did, what was returned, and the
\* events the operation scheduled
Result(op, stored, err, evs) ==
    [op |-> op, stored |-> stored, err |-> err, events |-> evs,
     panic |-> FALSE]

\* monitor.ScheduleProcessEvent
Schedule(evs) == mon \o evs

\* controller.Create
MemCreate(c, fail) ==
    LET stored == ConfigKey \notin mem /\ ~fail
        evs == IF stored THEN <<"add">> ELSE <<>>
    IN  /\ caller[c].pc = "idle"
        /\ Len(mon) < MaxScheduled
        /\ mem' = IF stored THEN mem \cup {ConfigKey} ELSE mem
        /\ mon' = Schedule(evs)
        /\ ended' = Result("create", stored, ~stored, evs)
        /\ UNCHANGED caller
        /\ MemFrame

\* controller.Update and controller.UpdateStatus:
\* oldconfig := c.configStore.Get(...)
MemUpdateGet(c, op) ==
    /\ caller[c].pc = "idle"
    /\ caller' = [caller EXCEPT ![c] =
                     [pc |-> "update", op |-> op, old |-> ConfigKey \in mem]]
    /\ UNCHANGED <<mem, mon, ended>>
    /\ MemFrame

\* controller.Update and controller.UpdateStatus: the store's Update or
\* UpdateStatus and, when it succeeds, the event with old: *oldconfig
MemUpdateStore(c, fail) ==
    LET r      == caller[c]
        stored == ConfigKey \in mem /\ ~fail
        nilOld == stored /\ ~r.old
        evs == IF stored /\ r.old THEN <<"update">> ELSE <<>>
    IN  /\ r.pc = "update"
        /\ Len(mon) < MaxScheduled
        /\ mon' = Schedule(evs)
        /\ ended' = IF nilOld
                   THEN [Result(r.op, TRUE, FALSE, <<>>) EXCEPT !.panic = TRUE]
                   ELSE Result(r.op, stored, ~stored, evs)
        /\ caller' = [caller EXCEPT ![c] =
                         IF nilOld THEN [Outside EXCEPT !.pc = "panicked"]
                         ELSE Outside]
        /\ UNCHANGED mem
        /\ MemFrame

\* the patch types patchFn can return
PatchTypes == {"merge", "json", "strategic"}

\* controller.Patch
MemPatch(c, typ, fail) ==
    LET supported == typ \in {"merge", "json"}
        stored    == supported /\ ConfigKey \in mem /\ ~fail
        evs       == IF stored THEN <<"update">> ELSE <<>>
    IN  /\ caller[c].pc = "idle"
        /\ Len(mon) < MaxScheduled
        /\ mon' = Schedule(evs)
        /\ ended' = Result("patch", stored, ~stored, evs)
        /\ UNCHANGED <<mem, caller>>
        /\ MemFrame

\* controller.Delete: config := c.Get(...); a nil config returns the error
MemDeleteGet(c) ==
    /\ caller[c].pc = "idle"
    /\ IF ConfigKey \in mem
       THEN /\ caller' = [caller EXCEPT ![c] =
                             [pc |-> "delete", op |-> "delete", old |-> TRUE]]
            /\ UNCHANGED ended
       ELSE /\ ended' = Result("delete", FALSE, TRUE, <<>>)
            /\ UNCHANGED caller
    /\ UNCHANGED <<mem, mon>>
    /\ MemFrame

\* controller.Delete: the store's Delete and, when it succeeds, the event;
\* otherwise the error after the if
MemDeleteStore(c, fail) ==
    LET stored == ConfigKey \in mem /\ ~fail
        evs == IF stored THEN <<"delete">> ELSE <<>>
    IN  /\ caller[c].pc = "delete"
        /\ Len(mon) < MaxScheduled
        /\ mem' = IF stored THEN mem \ {ConfigKey} ELSE mem
        /\ mon' = Schedule(evs)
        /\ ended' = Result("delete", stored, ~stored, evs)
        /\ caller' = [caller EXCEPT ![c] = Outside]
        /\ MemFrame

\* monitor.Run processes the event at the head
MonitorProcess ==
    /\ mon # <<>>
    /\ mon' = Tail(mon)
    /\ UNCHANGED <<mem, caller, ended>>
    /\ MemFrame

NextMem ==
    \/ \E c \in Callers, fail \in BOOLEAN : MemCreate(c, fail)
    \/ \E c \in Callers, op \in {"update", "updateStatus"} : MemUpdateGet(c, op)
    \/ \E c \in Callers, fail \in BOOLEAN : MemUpdateStore(c, fail)
    \/ \E c \in Callers, typ \in PatchTypes, fail \in BOOLEAN : MemPatch(c, typ, fail)
    \/ \E c \in Callers : MemDeleteGet(c)
    \/ \E c \in Callers, fail \in BOOLEAN : MemDeleteStore(c, fail)
    \/ MonitorProcess

SpecMem == InitPass /\ [][NextMem]_vars

(***************************************************************************)
(* Properties of the controller (Spec).                                    *)
(***************************************************************************)
\* C5: HasSynced() is false as long as one of the keys enqueued before the
\* sentinel has not completed a processing pass; when it is true the
\* sentinel and all those keys have been through the worker.
C5_ReadinessOrdering ==
    initialSync => (preKeys \cup {initialSyncSignal}) \subseteq passed

\* ready, with two secret keys enqueued ahead of the sentinel
C5_Witness == initialSync /\ Cardinality(preKeys) = 2

\* C6: HasSynced() is false initially, becomes true only in the worker's
\* pass over the sentinel, and never becomes false again.
C6_ReadinessMonotonic ==
    /\ initialSync = FALSE
    /\ [][/\ initialSync => initialSync'
          /\ (~initialSync /\ initialSync') =>
                (workerPc = "processing" /\ item = initialSyncSignal)]_vars

\* still ready after a key was given up and the queue was shut down
C6_Witness == initialSync /\ outcome.kind = "giveUp" /\ shuttingDown

\* the clusterIDs declared by the secrets in the cache when Run saw the
\* informer synced, and those declared with usable bytes
DeclaredAtSync ==
    UNION {DOMAIN cacheAtSync[s].data : s \in Secrets}

UsableAtSync ==
    UNION {{x \in DOMAIN cacheAtSync[s].data : Usable(cacheAtSync[s].data[x])} :
              s \in Secrets}

C8_RetryBound ==
    /\ \A k \in Keys : attempts[k] <= maxRetries
    /\ outcome.kind = "retry" =>
          (outcome.attempts <= maxRetries /\ outcome.requeued)
    /\ outcome.kind = "giveUp" =>
          /\ outcome.attempts = maxRetries + 1
          /\ ~outcome.requeued
          /\ outcome.dropped

\* a key has just been given up
C8_Witness == outcome.kind = "giveUp" /\ workerPc = "idle" /\ outcome.key \notin processing

\* C9 as stated: after a key is given up its retry counter is zero and the
\* key is not pending.
C9_AsStated ==
    outcome.kind = "giveUp" => (outcome.counter = 0 /\ ~outcome.pending)

\* C9 amended: after a key is given up its retry counter is zero; the key
\* is pending only if a notification for it arrived while the chain was
\* under way; and a chain that follows an earlier give-up of the key again
\* takes maxRetries + 1 attempts to be given up.
C9_GiveUpResets ==
    outcome.kind = "giveUp" =>
        /\ outcome.counter = 0
        /\ failures[outcome.key] = attempts[outcome.key]
        /\ outcome.pending => outcome.noted
        /\ outcome.attempts = maxRetries + 1

\* a second give-up of a key whose first chain ended with the key not
\* pending, so that a fresh notification started the second chain
C9_Witness ==
    /\ outcome.kind = "giveUp" /\ outcome.again
    /\ ~outcome.noted /\ ~outcome.pending
    /\ events > 0

\* C28: the retry counter of a key never exceeds maxRetries; it is zero
\* after every pass without error and after every give-up; a failed pass
\* raises it by one, and only when it was below maxRetries; nothing else
\* changes it (it equals the count of the key's failed passes since the
\* last reset).
C28_CounterDiscipline ==
    /\ \A k \in Keys : failures[k] \in 0..maxRetries /\ failures[k] = attempts[k]
    /\ outcome.kind # "none" => failures[outcome.key] = outcome.counter
    /\ outcome.kind \in {"ok", "giveUp"} => outcome.counter = 0
    /\ outcome.kind = "retry" =>
          (outcome.counter = outcome.attempts /\ outcome.counter <= maxRetries)
    /\ outcome.kind = "giveUp" => outcome.attempts - 1 = maxRetries

\* a pass without error has just reset the counter of a key whose earlier
\* passes failed
C28_Witness ==
    /\ outcome.kind = "ok" /\ outcome.attempts > 1
    /\ failures[outcome.key] = 0

\* the sentinel is in the queue, being processed, or processed
SentinelAdded ==
    \/ Pending(TheQueue, initialSyncSignal)
    \/ initialSyncSignal \in processing
    \/ initialSyncSignal \in passed

\* C24: the sentinel is added only after the informer's cache has synced
\* and at most once (it is never in the queue twice, and never again once
\* processed); the worker is started only after the sentinel was added;
\* when Run stops waiting for a cache that has not synced, the sentinel is
\* never added, no worker is started and HasSynced() stays false.
C24_SentinelOnce ==
    /\ SentinelAdded => (DOMAIN toList = {} /\ runPc # "waitSync")
    /\ Cardinality({i \in DOMAIN queue : queue[i] = initialSyncSignal}) <= 1
    /\ initialSyncSignal \notin waiting
    /\ initialSyncSignal \in passed =>
          (~Pending(TheQueue, initialSyncSignal)
           /\ initialSyncSignal \notin processing)
    /\ workerPc # "notStarted" =>
          (SentinelAdded /\ runPc \in {"running", "returned"})
    /\ (stopped /\ DOMAIN toList # {}) =>
          /\ runPc \in {"waitSync", "returned"}
          /\ ~SentinelAdded
          /\ workerPc = "notStarted"
          /\ ~initialSync

\* Run has returned from the wait for a cache that never synced
C24_Witness ==
    /\ stopped /\ DOMAIN toList # {} /\ runPc = "returned"
    /\ ~initialSync /\ workerPc = "notStarted"

\* the worker was started and has returned
WorkerGone == workerPc = "exited"

\* C23: the queue is shut down only after the stop signal, when Run
\* returns; once the stop signal has fired, eventually Run has returned,
\* the queue is shut down and the worker, if it was ever started, has
\* observed the shut-down queue and exited, the pass under way being
\* completed first; once it has exited no pass starts and nothing changes
\* the registry.
C23_ShutdownTerminates ==
    /\ [](shuttingDown => (stopped /\ runPc = "returned"))
    /\ [](WorkerGone => (stopped /\ item = "" /\ processing = {}))
    /\ [][WorkerGone => (WorkerGone' /\ UNCHANGED <<cs, pass, calls, passed>>)]_vars
    /\ (stopped ~> /\ runPc = "returned" /\ shuttingDown
                   /\ workerPc \in {"notStarted", "exited"})

\* the worker has completed passes, observed the shut-down queue and
\* exited; the queue is empty
C23_Witness ==
    /\ WorkerGone /\ shuttingDown /\ queue = <<>>
    /\ passed # {} /\ item = ""

\* C34: once the informer's cache has synced, eventually HasSynced() is
\* true, unless the stop signal fires; keys queued ahead of the sentinel
\* that fail and are retried or given up do not prevent it.
C34_ReadinessLiveness ==
    (DOMAIN toList = {}) ~> (initialSync \/ stopped)

\* the sentinel has just been processed, with no stop signal, while a key
\* that was queued ahead of it has failed and waits for its retry
C34_Witness ==
    /\ initialSync /\ ~stopped
    /\ outcome.key = initialSyncSignal
    /\ preKeys \cap waiting # {}

(***************************************************************************)
(* Properties of the registry over a sequence of passes (SpecOwner).       *)
(***************************************************************************)
\* C11: a pass never changes the owner of a record it leaves in the
\* registry, and a record leaves the registry only in the removal pass of
\* its owner: a clusterID whose record was once removed, and which may now
\* be owned by another secret, was released by the removal pass of the
\* owner it had then.
C11_Ownership ==
    /\ \A x \in DOMAIN csBefore \cap DOMAIN cs :
          cs[x].secretName = csBefore[x].secretName
    /\ \A x \in ClusterIDs :
          exOwner[x] # "" => exBy[x] = [kind |-> "delete", key |-> exOwner[x]]

\* a clusterID owned by a secret other than the owner of its removed
\* record, with a record that has been through a pass since
C11_Witness ==
    \E x \in DOMAIN csBefore \cap DOMAIN cs :
        exOwner[x] # "" /\ cs[x].secretName # exOwner[x]

(***************************************************************************)
(* Properties of the steps of a pass (SpecSteps, SpecWorkers).             *)
(***************************************************************************)
\* the methods of ClusterStore access the map inside the lock, and the lock
\* admits one writer or any number of readers
MethodsLocked ==
    /\ \A w \in Workers :
          /\ wk[w].pc = "get" => w \in mu.readers
          /\ wk[w].pc \in {"store", "delete", "len"} => mu.writer = w
    /\ mu.writer # "" => mu.readers = {}

\* how many items the queue holds for the key of secret s, and whether the
\* key is marked to be queued again when its processing is Done
Items(s) == Cardinality({i \in DOMAIN queue : queue[i] = s})

Marked(s) == s \in dirty /\ s \in processing

\* C15: the notifications received for a secret since its key was last
\* handed out, however many and of whatever kinds, leave exactly one item
\* pending for the key (in the queue or, while the key is being processed,
\* marked to be queued at Done); with no such notification nothing is
\* pending, so one Get answers them all.
C15_QueueDedup ==
    \A s \in Secrets :
        /\ Items(s) <= 1
        /\ noted[s] > 0 => Items(s) + (IF Marked(s) THEN 1 ELSE 0) = 1
        /\ noted[s] = 0 => (Items(s) = 0 /\ s \notin dirty)

\* a Get has answered MaxNotes notifications of one secret and left
\* nothing pending for its key
C15_Witness ==
    /\ item \in Secrets
    /\ served = MaxNotes /\ MaxNotes > 1
    /\ Items(item) = 0 /\ item \notin dirty

\* C18: in a removal pass the remove callback is invoked for a record the
\* key owns while the record is still in the registry; the record is
\* deleted next, whether the callback returned an error or not; and when
\* the scan has ended every record the key owned has had its callback,
\* once, and is gone.
C18_RemovalUnconditional ==
    LET r == wk["w1"]
        deleting == r.pc \in {"deleteLock", "delete"}
    IN  r.kind = "delete" =>
          /\ r.pc = "remove" => (r.x \in r.mine /\ Has(cs, r.x))
          /\ deleting =>
                /\ Has(cs, r.x)
                /\ r.log # <<>> /\ r.log[Len(r.log)].id = r.x
          /\ \A i \in DOMAIN r.log :
                /\ r.log[i].cb = "remove" /\ r.log[i].id \in r.mine
                /\ (i < Len(r.log) \/ ~deleting) => ~Has(cs, r.log[i].id)
          /\ r.pc \in {"lenRaw", "done"} =>
                \A x \in r.mine :
                    /\ ~Has(cs, x)
                    /\ Cardinality({i \in DOMAIN r.log : r.log[i].id = x}) = 1

\* the end of a removal pass over two records of the key in which the first
\* remove callback returned an error
C18_Witness ==
    /\ wk["w1"].kind = "delete" /\ wk["w1"].pc = "done"
    /\ Cardinality(wk["w1"].mine) = 2
    /\ Len(wk["w1"].log) = 2 /\ wk["w1"].log[1].err
    /\ ~Has(cs, wk["w1"].log[1].id)

\* C26: on create and update the record is in the registry when the add or
\* update callback is invoked and stays there for the rest of the pass, so
\* a Get made during or after the callback finds it; on removal a record
\* is in the registry when its remove callback is invoked and is deleted
\* only after that callback.
C26_Ordering ==
    LET r == wk["w1"] IN
    /\ r.kind = "add" =>
          /\ r.pc = "callback" => (Has(cs, r.x) /\ cs[r.x] = r.made)
          /\ \A i \in DOMAIN r.log :
                /\ r.log[i].cb \in {"add", "update"}
                /\ Has(cs, r.log[i].id)
                /\ cs[r.log[i].id].clients = r.log[i].clients
    /\ r.kind = "delete" =>
          /\ r.pc = "remove" => Has(cs, r.x)
          /\ \A x \in r.mine :
                ~Has(cs, x) => \E i \in DOMAIN r.log :
                                  r.log[i].cb = "remove" /\ r.log[i].id = x

\* the update callback is about to be invoked for a record the pass has
\* just replaced
C26_Witness ==
    LET r == wk["w1"] IN
    /\ r.kind = "add" /\ r.pc = "callback" /\ r.ok
    /\ Has(cs, r.x) /\ cs[r.x] = r.made

\* what the cache holds for a secret
Latest(s) == [err |-> FALSE, exists |-> cache[s].exists, data |-> cache[s].data]

\* the worker is between passes, the last pass was over the secret s, and
\* no notification for s has arrived since s was handed out for it
Settled(s) == item = "" /\ pass.key = s /\ noted[s] = 0

\* C22: the notifications for a secret that arrive before its key is
\* handed out, two or more included, are answered by one pass: the pass
\* reads what the cache holds then, which is the latest state, nothing
\* stays pending for the key, and the callbacks and the registry are those
\* of reconciling the registry as it was with that latest state, whatever
\* states the secret went through before.
C22_LevelTriggered ==
    \A s \in Secrets :
        Settled(s) =>
            /\ pass = PassOf(s, Latest(s))
            /\ Items(s) = 0 /\ s \notin dirty /\ s \notin processing
            /\ \E o \in Orders(RangeOf(csBefore, Latest(s))) :
                  LET r == processItem(csBefore, initialSync, s, Latest(s), o, {})
                  IN  r.calls = calls /\ r.cs = cs

\* one pass has answered two or more notifications of a secret whose
\* first notified state differs from the state the pass read, and has
\* invoked a callback
C22_Witness ==
    \E s \in Secrets :
        /\ Settled(s)
        /\ served >= 2
        /\ notified[s] # cache[s] /\ notified[s].exists
        /\ calls # <<>>

\* the event each operation schedules
EventOf(op) ==
    CASE op = "create" -> "add"
      [] op = "delete" -> "delete"
      [] OTHER -> "update"

\* C29 as stated: an operation of the in-memory config controller
\* schedules exactly one event, of its kind, if and only if the store's
\* operation succeeded; otherwise it returns an error and schedules none.
C29_AsStated ==
    ended.op # "none" =>
        /\ ended.stored <=> ended.events = <<EventOf(ended.op)>>
        /\ ~ended.stored => (ended.err /\ ended.events = <<>>)

\* C30 as stated: when the generation of the profile fails after the warm
\* signal, or the warm-up times out, the value Run sends on the stop
\* channel is an error, and the repeater has reported it with ctx.Error
\* when it returns.
C30_AsStated ==
    (bench.pc = "returned" /\ (bench.failed \/ bench.timedOut)) =>
        (bench.sent # "nil" /\ bench.reported)

\* C36: a removal pass removes every record its secret owned, also one
\* whose clusterID another secret present in the cache declares, and adds
\* no key to the queue: a key is pending only for a notification and a key
\* handed out answers at least one; a clusterID that had no record gets a
\* record only in an add-or-update pass of a secret that declares it, with
\* that secret as owner and through the add callback, not the update
\* callback.
C36_NoReevaluation ==
    /\ \A s \in Secrets : noted[s] = 0 => (Items(s) = 0 /\ s \notin dirty)
    /\ item # "" => served >= 1
    /\ pass.kind = "delete" =>
          \A x \in DOMAIN csBefore :
              csBefore[x].secretName = pass.key => ~Has(cs, x)
    /\ \A x \in (DOMAIN cs) \ DOMAIN csBefore :
          /\ pass.kind = "add" /\ x \in DOMAIN pass.data
          /\ cs[x].secretName = pass.key
          /\ Invoked("add", x) = 1 /\ Invoked("update", x) = 0

\* the removal pass of a deleted secret has removed the record of a
\* clusterID that another secret, present in the cache, declares; nothing
\* is pending and the clusterID has no record
C36_Witness ==
    /\ item = "" /\ queue = <<>> /\ dirty = {}
    /\ pass.kind = "delete" /\ calls # <<>>
    /\ \A s \in Secrets : noted[s] = 0
    /\ \E s \in Secrets \ {pass.key}, x \in ClusterIDs :
          /\ cache[s].exists /\ x \in DOMAIN cache[s].data
          /\ Has(csBefore, x) /\ csBefore[x].secretName = pass.key
          /\ ~Has(cs, x)

\* notifications have stopped and all have been answered
Quiescent ==
    /\ item = "" /\ queue = <<>> /\ dirty = {} /\ waiting = {}
    /\ \A s \in Secrets : noted[s] = 0

\* the registry holds the record of entry x of secret s: owner s and the
\* digest of the bytes
Converged(s, x) ==
    /\ Has(cs, x)
    /\ cs[x].secretName = s
    /\ cs[x].kubeConfigSha = Sum256(cache[s].data[x])

\* the usable entries of the secrets present in the cache
Declared ==
    {<<s, x>> \in Secrets \X ClusterIDs :
        /\ cache[s].exists
        /\ x \in DOMAIN cache[s].data
        /\ Usable(cache[s].data[x])}

\* no record is owned by a secret absent from the cache
NoOrphan == \A x \in DOMAIN cs : cache[cs[x].secretName].exists

\* C35 as stated: at quiescence every usable entry of a present secret has
\* its record, with the secret as owner and the digest of its bytes, unless
\* the clusterID is owned by a different secret; and no record is owned by
\* an absent secret.
C35_AsStated ==
    Quiescent =>
        /\ \A p \in Declared :
              \/ Converged(p[1], p[2])
              \/ Has(cs, p[2]) /\ cs[p[2]].secretName # p[1]
        /\ NoOrphan

\* C35 amended: the same, except that the clusterID may also have no record
\* at all when the last pass of the secret found it owned by a different
\* secret, whose record has been removed since.
C35_Convergence ==
    Quiescent =>
        /\ \A p \in Declared :
              \/ Converged(p[1], p[2])
              \/ Has(cs, p[2]) /\ cs[p[2]].secretName # p[1]
              \/ ~Has(cs, p[2]) /\ p[2] \in conflicted[p[1]]
        /\ NoOrphan

\* quiescence with both secrets present and declaring the same clusterID:
\* one owns the record, with the digest of its latest bytes, after an
\* update
C35_Witness ==
    /\ Quiescent
    /\ \A s \in Secrets : cache[s].exists /\ "east" \in DOMAIN cache[s].data
    /\ \E s \in Secrets : Converged(s, "east")
    /\ pass.kind = "add" /\ Invoked("update", "east") = 1

\* C13 as stated: every read and every write of the registry's map is made
\* while holding the registry's lock, and no read of the map runs during a
\* write.
C13_AsStated == MethodsLocked /\ bare = {} /\ ~overlap

Called == {g \in Spawns : runs[g].st \in {"called", "done"}}

\* C16 as stated: no two invocations of the repeat function receive the
\* same index.
C16_AsStated ==
    \A g, h \in Called : g # h => runs[g].i # runs[h].i

(***************************************************************************)
(* Properties of the rate limiter (SpecLimiter).                           *)
(***************************************************************************)
\* C17: the bucket starts full; a Wait returns only into a slot the leak
\* goroutine has drained, and a slot is drained only for a tick: at every
\* moment the Waits that have returned are at most the slots drained, which
\* are at most the ticks fired.
C17_Pacing ==
    /\ (lim.ticks = 0 /\ lim.returned = 0) => lim.bucket = Rate
    /\ lim.bucket + lim.drained = Rate + lim.returned
    /\ lim.returned <= lim.drained
    /\ lim.drained <= lim.ticks

\* as many Waits have returned as ticks have fired, the last of them
C17_Witness ==
    /\ lim.returned = MaxTicks
    /\ lim.ticks = MaxTicks
    /\ lim.bucket = Rate

\* C33: over any sequence of passes of the single worker, whatever the
\* callbacks return, the callbacks invoked for each clusterID form a trace
\* (add update* remove)*: an add callback follows no callback or a remove,
\* an update or a remove follows an add or an update; and a clusterID has
\* a record in the registry exactly when its last callback was an add or
\* an update.
C33_WellFormedTrace ==
    /\ tr.ok
    /\ \A x \in ClusterIDs : Has(cs, x) <=> tr.last[x] \in {"add", "update"}

\* a clusterID has been added again after its removal and then updated,
\* in a run in which a callback returned an error
C33_Witness ==
    /\ tr.erred
    /\ \E x \in tr.again : tr.last[x] = "update"

\* C32: the limiter is closed only after the loop has left (it calls
\* limiter.Wait() no more) and every goroutine it started has finished,
\* and the stop channel is closed after the limiter; no Wait() is ever a
\* send on the closed limiter, whenever the stop message arrives.
C32_TeardownOrder ==
    /\ loopPc # "panicked"
    /\ lim.closed =>
          /\ loopPc \in {"closeStop", "returned"}
          /\ \A g \in Started : runs[g].st = "done"
    /\ loopPc = "returned" => lim.closed
    /\ loopPc \in {"select", "spawn", "inc"} => ~lim.closed

\* the repeater has returned and closed the limiter after starting every
\* goroutine it could, each after a Wait() that returned
C32_Witness ==
    /\ loopPc = "returned"
    /\ lim.closed
    /\ Started = Spawns
    /\ lim.returned = MaxSpawns

\* C31: once the limiter is closed the bucket only empties, a receive of
\* the leak goroutine never blocks, and the goroutine eventually returns;
\* it returns only from the closed and empty bucket, after draining every
\* slot that was buffered, each on a tick of its own.
C31_LeakTerminates ==
    /\ [](lim.leak = "exited" =>
            (lim.closed /\ lim.bucket = 0 /\ lim.drained = Rate + lim.returned))
    /\ []((lim.closed /\ lim.leak = "drain") => ENABLED (LeakDrain \/ LeakExit))
    /\ [][lim.closed =>
            /\ lim'.closed
            /\ lim'.bucket <= lim.bucket
            /\ lim'.bucket < lim.bucket => (lim.leak = "drain" /\ lim'.leak = "range")]_vars
    /\ (lim.closed ~> lim.leak = "exited")

\* the leak goroutine has returned after a Close that found the bucket
\* full: it drained every slot first
C31_Witness ==
    /\ lim.leak = "exited"
    /\ lim.returned = 0
    /\ lim.drained = Rate

==========================================================================
